---- MODULE Spec2Model ----
(***************************************************************************)
(* The OpenFlow codec (src/src/models/openflow.ts) and the editor store    *)
(* (src/src/hooks/useNodeHandlers.ts).                                     *)
(*                                                                         *)
(* JavaScript values are tagged records: the tag t is the value's kind,    *)
(* and b, n, s, a or o its payload (a boolean, number, string, array or    *)
(* object).  An object's payload is a function from its own keys to        *)
(* values; a key that is not in the function's domain is an absent key.    *)
(* The typed document (OpenFlow, FlowValue, FlowModule, ModuleValue, ...)  *)
(* is a record of its fields (no tag), its leaves being such values.       *)
(***************************************************************************)
EXTENDS Integers, Sequences, FiniteSets, TLC

VARIABLES
    \* codec harness: one fromJson / toJson / fromJson / toJson pipeline
    raw,        \* the untrusted input handed to fromJson
    clock,      \* what Date.now() returns during the call
    pc,         \* "start", "failed", "parsed", "serialized", "reparsed", "reserialized"
    res,        \* result of fromJson(raw)
    json,       \* toJson(res.val)
    res2,       \* result of fromJson(json)
    json2,      \* toJson(res2.val)
    \* editor store (EditorState)
    currentFlow,
    isDirty,
    selectedModuleId,
    nodePositions,
    last,       \* the last store operation called, with its arguments and outcome
    \* toolbar (Toolbar.tsx)
    isLoading,  \* handleOpen is between setIsLoading(true) and setIsLoading(false)
    confirmed   \* the pending handleOpen asked window.confirm and got true

codecVars == <<raw, clock, pc, res, json, res2, json2>>
storeVars == <<currentFlow, isDirty, selectedModuleId, nodePositions>>
toolbarVars == <<isLoading, confirmed>>
vars == <<raw, clock, pc, res, json, res2, json2,
          currentFlow, isDirty, selectedModuleId, nodePositions, last,
          isLoading, confirmed>>

-----------------------------------------------------------------------------
(* JavaScript values *)

Undef == [t |-> "undefined"]
Null == [t |-> "null"]
B(b) == [t |-> "bool", b |-> b]
N(n) == [t |-> "num", n |-> n]
S(s) == [t |-> "str", s |-> s]
A(s) == [t |-> "arr", a |-> s]
O(f) == [t |-> "obj", o |-> f]

NoKeys == [key \in {} |-> Undef]

\* a typed node of the document (an OpenFlow, FlowModule, ModuleValue, Branch or
\* InputTransform record): a JavaScript object, held as a record of its fields
IsNode(x) == "t" \notin DOMAIN x

\* typeof x, for the kinds the codec tests
Typeof(x) ==
    CASE IsNode(x) -> "object"
      [] x.t = "undefined" -> "undefined"
      [] x.t = "bool" -> "boolean"
      [] x.t = "num" -> "number"
      [] x.t = "str" -> "string"
      [] OTHER -> "object"

\* ToBoolean(x): what `!x`, `x && y`, `x || y` and `x ? a : b` test
Truthy(x) ==
    CASE IsNode(x) -> TRUE
      [] x.t \in {"undefined", "null"} -> FALSE
      [] x.t = "bool" -> x.b
      [] x.t = "num" -> x.n # 0
      [] x.t = "str" -> x.s # ""
      [] OTHER -> TRUE

IsArray(x) == x.t = "arr"

\* the guard `!x || typeof x !== 'object'`
NotAnObject(x) == ~Truthy(x) \/ Typeof(x) # "object"

\* x[key] for a string key that is no array index: an absent key reads undefined,
\* and so does any key of a boolean, number, string or array
Get(x, key) ==
    IF x.t = "obj" /\ key \in DOMAIN x.o THEN x.o[key] ELSE Undef

Nullish(x) == x.t \in {"undefined", "null"}

RECURSIVE JoinStr(_)
RECURSIVE JsString(_)
\* String(x), as a template literal `${x}` computes it
JsString(x) ==
    CASE x.t = "undefined" -> "undefined"
      [] x.t = "null" -> "null"
      [] x.t = "bool" -> (IF x.b THEN "true" ELSE "false")
      [] x.t = "num" -> ToString(x.n)
      [] x.t = "str" -> x.s
      [] x.t = "arr" -> JoinStr(x.a)
      [] OTHER -> "[object Object]"
\* Array.prototype.join(","): null and undefined elements print as ""
JoinStr(s) ==
    IF Len(s) = 0 THEN ""
    ELSE LET h == IF Nullish(s[1]) THEN "" ELSE JsString(s[1])
         IN IF Len(s) = 1 THEN h ELSE h \o "," \o JoinStr(Tail(s))

-----------------------------------------------------------------------------
(* A call either returns or throws.  k counts the Date.now() calls made so *)
(* far in the enclosing fromJson call.                                     *)

Ok(val, k) == [ok |-> TRUE, val |-> val, k |-> k]
Throw(name, message) == [ok |-> FALSE, name |-> name, message |-> message]

\* reading a property of null or undefined
TypeErrorOn(x, key) ==
    Throw("TypeError",
          "Cannot read properties of " \o JsString(x) \o " (reading '" \o key \o "')")

\* Date.now() at its k-th call: the clock starts at clock.base and has
\* advanced by one millisecond just before each call numbered in clock.ticks
DateNow(clk, k) == clk.base + Cardinality({j \in clk.ticks : j <= k})

-----------------------------------------------------------------------------
(* fromJson and its helpers (openflow.ts, "JSON Serialization" and         *)
(* "Internal Parsing Helpers")                                             *)

\* typeof x === type ? x : dflt
TypedOr(x, type, dflt) == IF Typeof(x) = type THEN x ELSE dflt

\* variants of parseInputTransform that the claims must tell from it
parseInputTransform_KeepObject(j) == [type |-> S("static"), value |-> j]
parseInputTransform_AnyExpr(j) ==
    IF NotAnObject(j) THEN [type |-> S("static"), value |-> j]
    ELSE IF Get(j, "type") = S("javascript")
         THEN [type |-> S("javascript"), expr |-> Get(j, "expr")]
         ELSE [type |-> S("static"), value |-> Get(j, "value")]

parseInputTransform(j) ==
    IF NotAnObject(j) THEN [type |-> S("static"), value |-> j]
    ELSE IF Get(j, "type") = S("javascript") /\ Typeof(Get(j, "expr")) = "string"
         THEN [type |-> S("javascript"), expr |-> Get(j, "expr")]
         ELSE [type |-> S("static"), value |-> Get(j, "value")]

\* Object.entries(x) of an object or an array, as a function from the keys
Entries(x) ==
    IF x.t = "arr"
    THEN [key \in {ToString(i - 1) : i \in DOMAIN x.a} |->
             x.a[CHOOSE i \in DOMAIN x.a : ToString(i - 1) = key]]
    ELSE x.o

parseInputTransforms(j) ==
    IF NotAnObject(j) THEN NoKeys
    ELSE [key \in DOMAIN Entries(j) |-> parseInputTransform(Entries(j)[key])]

parseStopAfterIf(j) ==
    O([expr |-> TypedOr(Get(j, "expr"), "string", S("")),
       skip_if_stopped |-> TypedOr(Get(j, "skip_if_stopped"), "boolean", B(FALSE)),
       suspend |-> TypedOr(Get(j, "suspend"), "number", Undef)])

parseSuspend(j) ==
    O([required_events |-> TypedOr(Get(j, "required_events"), "number", Undef),
       timeout |-> TypedOr(Get(j, "timeout"), "number", N(0)),
       resume_form |-> TypedOr(Get(j, "resume_form"), "object", Undef)])

parseRetry(j) ==
    LET c == Get(j, "constant")
        e == Get(j, "exponential")
        constant ==
            IF Truthy(c) /\ Typeof(c) = "object"
            THEN [constant |->
                     O([attempts |-> TypedOr(Get(c, "attempts"), "number", N(3)),
                        seconds |-> TypedOr(Get(c, "seconds"), "number", N(10))])]
            ELSE NoKeys
        exponential ==
            IF Truthy(e) /\ Typeof(e) = "object"
            THEN [exponential |->
                     O([attempts |-> TypedOr(Get(e, "attempts"), "number", N(3)),
                        multiplier |-> TypedOr(Get(e, "multiplier"), "number", N(2)),
                        seconds |-> TypedOr(Get(e, "seconds"), "number", N(10))])]
            ELSE NoKeys
    IN O(constant @@ exponential)

\* (obj.language as RawScript['language']) || 'deno'
parseLanguage(x) == IF Truthy(x) THEN x ELSE S("deno")

\* typeof obj.parallelism === 'number' ? obj.parallelism : undefined
parseParallelism(x) == TypedOr(x, "number", Undef)

\* `module_${Date.now()}_${index}`
synthId(now, index) == S("module_" \o ToString(now) \o "_" \o ToString(index))

\* a default case that does not say which tag it met
unknownModuleType_NoTag(type) == Throw("Error", "Unknown module type")

\* the switch's default case
unknownModuleType(type) == Throw("Error", "Unknown module type: " \o JsString(type))

\* the guard on an entry of a module sequence
invalidFlowModule(j) == NotAnObject(j)

\* r, then F on what r returned, unless r threw: an exception propagates
Then(r, F(_)) == IF r.ok THEN F(r) ELSE r

RECURSIVE parseFlowModule(_, _, _, _)
RECURSIVE parseModuleValue(_, _, _)
RECURSIVE parseModuleList(_, _, _, _)
RECURSIVE parseBranch(_, _, _)
RECURSIVE parseBranchAll(_, _, _)
RECURSIVE parseBranchList(_, _, _, _, _)

\* Array.isArray(x) ? x.map((m, idx) => parseFlowModule(m, idx)) : []
parseModuleArray(x, k, clk) ==
    IF IsArray(x) THEN parseModuleList(x.a, 1, k, clk) ELSE Ok(<<>>, k)

\* arr.map((m, idx) => parseFlowModule(m, idx)) from the i-th element on:
\* the first throw ends the map
parseModuleList(arr, i, k, clk) ==
    IF i > Len(arr) THEN Ok(<<>>, k)
    ELSE Then(parseFlowModule(arr[i], i - 1, k, clk), LAMBDA h :
         Then(parseModuleList(arr, i + 1, h.k, clk), LAMBDA rest :
         Ok(<<h.val>> \o rest.val, rest.k)))

\* arr.map(parseBranch) / arr.map(parseBranchAll) from the i-th element on
parseBranchList(arr, i, k, clk, all) ==
    IF i > Len(arr) THEN Ok(<<>>, k)
    ELSE Then(IF all THEN parseBranchAll(arr[i], k, clk) ELSE parseBranch(arr[i], k, clk),
              LAMBDA h :
         Then(parseBranchList(arr, i + 1, h.k, clk, all), LAMBDA rest :
         Ok(<<h.val>> \o rest.val, rest.k)))

\* Array.isArray(x) ? x.map(parseBranch) : []  (parseBranchAll when all)
parseBranchArray(x, k, clk, all) ==
    IF IsArray(x) THEN parseBranchList(x.a, 1, k, clk, all) ELSE Ok(<<>>, k)

parseBranch(j, k, clk) ==
    IF Nullish(j) THEN TypeErrorOn(j, "summary")
    ELSE Then(parseModuleArray(Get(j, "modules"), k, clk), LAMBDA ms :
         Ok([summary |-> TypedOr(Get(j, "summary"), "string", Undef),
             expr |-> TypedOr(Get(j, "expr"), "string", S("")),
             modules |-> ms.val], ms.k))

parseBranchAll(j, k, clk) ==
    IF Nullish(j) THEN TypeErrorOn(j, "summary")
    ELSE Then(parseModuleArray(Get(j, "modules"), k, clk), LAMBDA ms :
         Ok([summary |-> TypedOr(Get(j, "summary"), "string", Undef),
             skip_failure |-> TypedOr(Get(j, "skip_failure"), "boolean", B(FALSE)),
             modules |-> ms.val], ms.k))

parseModuleValue(j, k, clk) ==
    IF NotAnObject(j) THEN Throw("Error", "Invalid ModuleValue: expected object")
    ELSE
    CASE Get(j, "type") = S("identity") -> Ok([type |-> S("identity")], k)
      [] Get(j, "type") = S("rawscript") ->
            Ok([type |-> S("rawscript"),
                content |-> TypedOr(Get(j, "content"), "string", S("")),
                language |-> parseLanguage(Get(j, "language")),
                path |-> TypedOr(Get(j, "path"), "string", Undef),
                input_transforms |-> parseInputTransforms(Get(j, "input_transforms")),
                lock |-> TypedOr(Get(j, "lock"), "string", Undef),
                tag |-> TypedOr(Get(j, "tag"), "string", Undef)], k)
      [] Get(j, "type") = S("script") ->
            Ok([type |-> S("script"),
                path |-> TypedOr(Get(j, "path"), "string", S("")),
                input_transforms |-> parseInputTransforms(Get(j, "input_transforms")),
                hash |-> TypedOr(Get(j, "hash"), "string", Undef),
                tag |-> TypedOr(Get(j, "tag"), "string", Undef)], k)
      [] Get(j, "type") = S("forloopflow") ->
            Then(parseModuleArray(Get(j, "modules"), k, clk), LAMBDA ms :
            Ok([type |-> S("forloopflow"),
                modules |-> ms.val,
                iterator |-> parseInputTransform(Get(j, "iterator")),
                skip_failures |-> TypedOr(Get(j, "skip_failures"), "boolean", B(FALSE)),
                parallel |-> TypedOr(Get(j, "parallel"), "boolean", Undef),
                parallelism |-> parseParallelism(Get(j, "parallelism"))], ms.k))
      [] Get(j, "type") \in {S("branchone"), S("branchall")} ->
            Then(parseBranchArray(Get(j, "branches"), k, clk,
                                  Get(j, "type") = S("branchall")), LAMBDA bs :
            Then(parseModuleArray(Get(j, "default"), bs.k, clk), LAMBDA d :
            Ok(IF Get(j, "type") = S("branchone")
               THEN [type |-> S("branchone"),
                     branches |-> bs.val,
                     default |-> d.val]
               ELSE [type |-> S("branchall"),
                     branches |-> bs.val,
                     default |-> d.val,
                     parallel |-> TypedOr(Get(j, "parallel"), "boolean", Undef)], d.k)))
      [] OTHER -> unknownModuleType(Get(j, "type"))

\* the Date.now() calls made once a module's id is settled
clockAfterId(j, k) == IF Typeof(Get(j, "id")) = "string" THEN k ELSE k + 1

parseFlowModule(j, index, k, clk) ==
    IF invalidFlowModule(j)
    THEN Throw("Error", "Invalid FlowModule at index " \o ToString(index))
    ELSE Then(parseModuleValue(Get(j, "value"), clockAfterId(j, k), clk), LAMBDA value :
         Ok([id |-> IF Typeof(Get(j, "id")) = "string" THEN Get(j, "id")
                    ELSE synthId(DateNow(clk, k + 1), index),
             value |-> value.val,
             summary |-> TypedOr(Get(j, "summary"), "string", Undef),
             stop_after_if |-> IF Truthy(Get(j, "stop_after_if"))
                               THEN parseStopAfterIf(Get(j, "stop_after_if")) ELSE Undef,
             sleep |-> IF Truthy(Get(j, "sleep"))
                       THEN parseInputTransform(Get(j, "sleep")) ELSE Undef,
             suspend |-> IF Truthy(Get(j, "suspend"))
                         THEN parseSuspend(Get(j, "suspend")) ELSE Undef,
             retry |-> IF Truthy(Get(j, "retry"))
                       THEN parseRetry(Get(j, "retry")) ELSE Undef], value.k))

parseFlowValue(j, k, clk) ==
    Then(parseModuleArray(Get(j, "modules"), k, clk), LAMBDA ms :
    Then(IF Truthy(Get(j, "failure_module"))
         THEN parseFlowModule(Get(j, "failure_module"), -1, ms.k, clk)
         ELSE Ok(Undef, ms.k), LAMBDA f :
    Ok([modules |-> ms.val,
        failure_module |-> f.val,
        same_worker |-> TypedOr(Get(j, "same_worker"), "boolean", B(FALSE))], f.k)))

\* the guard on the root's value field
\* a guard that only looks for an absent field
invalidValueField_OnlyAbsent(valueJson) == valueJson = Undef

invalidValueField(valueJson) == NotAnObject(valueJson)

fromJson(j, clk) ==
    IF NotAnObject(j) THEN Throw("Error", "Invalid OpenFlow JSON: expected object")
    ELSE IF invalidValueField(Get(j, "value"))
    THEN Throw("Error", "Invalid OpenFlow JSON: missing or invalid value field")
    ELSE Then(parseFlowValue(Get(j, "value"), 0, clk), LAMBDA value :
         Ok([summary |-> TypedOr(Get(j, "summary"), "string", Undef),
             description |-> TypedOr(Get(j, "description"), "string", Undef),
             value |-> value.val,
             schema |-> TypedOr(Get(j, "schema"), "object", Undef)], value.k))

-----------------------------------------------------------------------------
(* toJson and its helpers (openflow.ts, "JSON Serialization Helpers")      *)

\* node.key of a typed object: undefined when the object has no such key
Prop(node, key) == IF key \in DOMAIN node THEN node[key] ELSE Undef

\* a spread that writes null where the condition fails
Spread_NullWhenAbsent(cond, key, val) == key :> (IF cond THEN val ELSE Null)

\* ...(cond && { key: val }) inside an object literal
Spread(cond, key, val) == IF cond THEN key :> val ELSE NoKeys

inputTransformToJson(transform) ==
    IF transform.type = S("javascript")
    THEN O([type |-> S("javascript"), expr |-> transform.expr])
    ELSE O([type |-> S("static"), value |-> transform.value])

inputTransformsToJson(transforms) ==
    O([key \in DOMAIN transforms |-> inputTransformToJson(transforms[key])])

\* a throw statement reached inside the serializer
Thrown(name, message) == [t |-> "throw", name |-> name, message |-> message]

RECURSIVE moduleToJson(_)
RECURSIVE moduleValueToJson(_)

\* modules.map(moduleToJson)
modulesToJson(modules) == A([i \in DOMAIN modules |-> moduleToJson(modules[i])])

moduleValueToJson(value) ==
    CASE value.type = S("identity") -> O([type |-> S("identity")])
      [] value.type = S("rawscript") ->
            O([type |-> S("rawscript"),
               content |-> value.content,
               language |-> value.language,
               input_transforms |-> inputTransformsToJson(value.input_transforms)]
              @@ Spread(Truthy(Prop(value, "path")), "path", Prop(value, "path"))
              @@ Spread(Truthy(Prop(value, "lock")), "lock", Prop(value, "lock"))
              @@ Spread(Truthy(Prop(value, "tag")), "tag", Prop(value, "tag")))
      [] value.type = S("script") ->
            O([type |-> S("script"),
               path |-> value.path,
               input_transforms |-> inputTransformsToJson(value.input_transforms)]
              @@ Spread(Truthy(Prop(value, "hash")), "hash", Prop(value, "hash"))
              @@ Spread(Truthy(Prop(value, "tag")), "tag", Prop(value, "tag")))
      [] value.type = S("forloopflow") ->
            O([type |-> S("forloopflow"),
               modules |-> modulesToJson(value.modules),
               iterator |-> inputTransformToJson(value.iterator)]
              @@ Spread(Prop(value, "skip_failures") # Undef, "skip_failures",
                        Prop(value, "skip_failures"))
              @@ Spread(Prop(value, "parallel") # Undef, "parallel", Prop(value, "parallel"))
              @@ Spread(Prop(value, "parallelism") # Undef, "parallelism",
                        Prop(value, "parallelism")))
      [] value.type = S("branchone") ->
            O([type |-> S("branchone"),
               branches |->
                   A([i \in DOMAIN value.branches |->
                        O([expr |-> value.branches[i].expr,
                           modules |-> modulesToJson(value.branches[i].modules)]
                          @@ Spread(Truthy(Prop(value.branches[i], "summary")), "summary",
                                    Prop(value.branches[i], "summary")))]),
               default |-> modulesToJson(value.default)])
      [] value.type = S("branchall") ->
            O([type |-> S("branchall"),
               branches |->
                   A([i \in DOMAIN value.branches |->
                        O([skip_failure |-> value.branches[i].skip_failure,
                           modules |-> modulesToJson(value.branches[i].modules)]
                          @@ Spread(Truthy(Prop(value.branches[i], "summary")), "summary",
                                    Prop(value.branches[i], "summary")))]),
               default |-> modulesToJson(value.default)]
              @@ Spread(Prop(value, "parallel") # Undef, "parallel", Prop(value, "parallel")))
      [] OTHER -> Thrown("Error", "Unknown module type: " \o JsString(value.type))

moduleToJson(module) ==
    IF module = Undef
    THEN Thrown("TypeError", "Cannot read properties of undefined (reading 'id')")
    ELSE
    O([id |-> module.id,
       value |-> moduleValueToJson(module.value)]
      @@ Spread(Truthy(Prop(module, "summary")), "summary", Prop(module, "summary"))
      @@ Spread(Truthy(Prop(module, "stop_after_if")), "stop_after_if",
                Prop(module, "stop_after_if"))
      @@ (IF Truthy(Prop(module, "sleep"))
          THEN [sleep |-> inputTransformToJson(Prop(module, "sleep"))] ELSE NoKeys)
      @@ Spread(Truthy(Prop(module, "suspend")), "suspend", Prop(module, "suspend"))
      @@ Spread(Truthy(Prop(module, "retry")), "retry", Prop(module, "retry")))

flowValueToJson(value) ==
    O([modules |-> modulesToJson(value.modules),
       same_worker |-> value.same_worker]
      @@ (IF Truthy(Prop(value, "failure_module"))
          THEN [failure_module |-> moduleToJson(Prop(value, "failure_module"))] ELSE NoKeys))

toJson(flow) ==
    O([value |-> flowValueToJson(flow.value)]
      @@ Spread(Truthy(Prop(flow, "summary")), "summary", Prop(flow, "summary"))
      @@ Spread(Truthy(Prop(flow, "description")), "description", Prop(flow, "description"))
      @@ Spread(Truthy(Prop(flow, "schema")), "schema", Prop(flow, "schema")))

-----------------------------------------------------------------------------
(* The codec pipeline: fromJson, toJson, fromJson, toJson on one input     *)
(*                                                                         *)

MaxTick == 2
ClockBase == 1700
Clocks == [base : {ClockBase}, ticks : SUBSET (2..MaxTick)]

(* The inputs: every JSON root that differs from a well-formed document in  *)
(* one field, at one place, plus short module sequences mixing modules     *)
(* with and without ids, nested bodies, and entries that are no objects.   *)

MaxLen == 2

Put(o, key, val) == O((key :> val) @@ o.o)
Drop(o, key) == O([k \in DOMAIN o.o \ {key} |-> o.o[k]])
PutEach(o, key, vals) == {Put(o, key, val) : val \in vals}
SeqsUpTo(set, n) == UNION {[1..m -> set] : m \in 0..n}

IdentityValue == O([type |-> S("identity")])
WithId(id, value) == O([id |-> S(id), value |-> value])
NoId(value) == O([value |-> value])

\* raw values in an InputTransform position
TransformRaws ==
    {Null, N(0), N(5), S(""), S("literal"), B(FALSE), B(TRUE), A(<<N(1)>>), O(NoKeys),
     O([type |-> S("javascript"), expr |-> S("1+1")]),
     O([type |-> S("javascript"), expr |-> N(1), value |-> S("v")]),
     O([type |-> S("javascript")]),
     O([type |-> S("static"), value |-> N(1)]),
     O([type |-> S("static"), value |-> O([type |-> S("javascript"), expr |-> S("x")])]),
     O([type |-> S("static")]),
     O([value |-> Null])}

\* modules of nested bodies and of longer sequences
NestedLeaves ==
    {WithId("a", IdentityValue),
     NoId(IdentityValue),
     NoId(O([type |-> S("rawscript")])),
     WithId("b", O([type |-> S("bogus")])),
     Null}
Bodies == {A(b) : b \in SeqsUpTo(NestedLeaves, MaxLen)}
ShortBodies == {A(b) : b \in SeqsUpTo(NestedLeaves, 1)}

\* one module, one field changed
BaseModule == WithId("m1", IdentityValue)
ModuleVariants ==
    {BaseModule, Drop(BaseModule, "id"), Drop(BaseModule, "value")}
    \cup PutEach(BaseModule, "id", {N(7), S(""), Null})
    \cup PutEach(BaseModule, "summary", {S("sum"), S(""), N(5), Null})
    \cup PutEach(BaseModule, "stop_after_if",
           {Null, N(0), N(5), S("x"), A(<<>>), O(NoKeys),
            O([expr |-> S("e"), skip_if_stopped |-> B(TRUE), suspend |-> N(3)]),
            O([expr |-> N(1), skip_if_stopped |-> S("no"), suspend |-> S("3")])})
    \cup PutEach(BaseModule, "sleep", TransformRaws)
    \cup PutEach(BaseModule, "suspend",
           {Null, N(5), B(TRUE), O(NoKeys),
            O([required_events |-> N(1), timeout |-> N(9),
               resume_form |-> O([schema |-> O(NoKeys)])]),
            O([required_events |-> S("1"), timeout |-> S("x"), resume_form |-> Null]),
            O([resume_form |-> S("form")])})
    \cup PutEach(BaseModule, "retry",
           {Null, N(5), O(NoKeys),
            O([constant |-> O([attempts |-> N(1), seconds |-> N(2)])]),
            O([constant |-> O(NoKeys)]),
            O([constant |-> N(5)]),
            O([constant |-> Null, exponential |-> O(NoKeys)]),
            O([exponential |-> O([attempts |-> N(1), multiplier |-> N(4), seconds |-> N(2)])]),
            O([exponential |-> O([attempts |-> S("1"), multiplier |-> Null, seconds |-> B(TRUE)])]),
            O([constant |-> O([attempts |-> S("x")]), exponential |-> O([seconds |-> N(7)])])})
    \cup PutEach(BaseModule, "value",
           {Null, N(5), S("identity"), A(<<>>), A(<<S("identity")>>), O(NoKeys),
            O([type |-> S("bogus")]), O([type |-> S("Identity")]), O([type |-> S("")]),
            O([type |-> N(5)]), O([type |-> Null]), O([type |-> B(TRUE)]),
            O([type |-> A(<<S("identity")>>)]), O([type |-> O(NoKeys)])})

TransformsRaws ==
    {Null, N(5), S("x"), O(NoKeys), A(<<S("z"), O([type |-> S("javascript"), expr |-> S("e")])>>),
     O([a |-> S("literal"), b |-> O([type |-> S("javascript"), expr |-> S("1+1")])])}
    \cup {O([a |-> r]) : r \in TransformRaws}

BaseRawScript == O([type |-> S("rawscript"), content |-> S("c"), language |-> S("python3"),
                    input_transforms |-> O(NoKeys)])
RawScriptValues ==
    {BaseRawScript, O([type |-> S("rawscript")])}
    \cup PutEach(BaseRawScript, "content", {S(""), N(1), Null})
    \cup PutEach(BaseRawScript, "language",
           {S("deno"), S("nativets"), S("cobol"), S(""), N(5), N(0), Null, B(TRUE),
            O(NoKeys), A(<<>>)})
    \cup {Drop(BaseRawScript, "language")}
    \cup PutEach(BaseRawScript, "path", {S("p"), S(""), N(1)})
    \cup PutEach(BaseRawScript, "input_transforms", TransformsRaws)
    \cup PutEach(BaseRawScript, "lock", {S("l"), S(""), N(1)})
    \cup PutEach(BaseRawScript, "tag", {S("g"), S(""), N(1)})

BaseScript == O([type |-> S("script"), path |-> S("hub/x"), input_transforms |-> O(NoKeys)])
ScriptValues ==
    {BaseScript, O([type |-> S("script")])}
    \cup PutEach(BaseScript, "path", {S(""), N(1), Null})
    \cup PutEach(BaseScript, "input_transforms",
           {Null, O([a |-> S("literal")]), A(<<N(1)>>)})
    \cup PutEach(BaseScript, "hash", {S("h"), S(""), N(1)})
    \cup PutEach(BaseScript, "tag", {S("g"), S(""), N(1)})

BaseForLoop == O([type |-> S("forloopflow"), modules |-> A(<<>>),
                  iterator |-> O([type |-> S("javascript"), expr |-> S("[1,2]")])])
ForLoopBodies == PutEach(BaseForLoop, "modules", Bodies)
ForLoopValues ==
    {BaseForLoop, O([type |-> S("forloopflow")])}
    \cup PutEach(BaseForLoop, "modules", {Null, S("x"), O(NoKeys)})
    \cup PutEach(BaseForLoop, "iterator", TransformRaws)
    \cup PutEach(BaseForLoop, "skip_failures", {B(TRUE), B(FALSE), S("yes"), N(1), Null})
    \cup PutEach(BaseForLoop, "parallel", {B(TRUE), B(FALSE), N(1)})
    \cup PutEach(BaseForLoop, "parallelism",
           {N(2), N(1), N(0), N(-1), S("3"), B(TRUE), Null})

\* raw entries of a branches array
BranchRaws ==
    {Null, N(5), S("x"), O(NoKeys),
     O([summary |-> S("s"), expr |-> S("e"), skip_failure |-> B(TRUE),
        modules |-> A(<<NoId(IdentityValue)>>)]),
     O([summary |-> S(""), expr |-> N(1), skip_failure |-> S("x"), modules |-> Null]),
     O([expr |-> S("e"), modules |-> A(<<WithId("a", IdentityValue)>>)]),
     O([modules |-> A(<<WithId("b", O([type |-> S("bogus")]))>>)])}
BranchArrays == {A(b) : b \in SeqsUpTo(BranchRaws, MaxLen)}

BranchValues(type) ==
    LET base == O([type |-> S(type), branches |-> A(<<>>), default |-> A(<<>>)])
    IN {base, O([type |-> S(type)])}
       \cup PutEach(base, "branches", {Null, N(5), O(NoKeys)} \cup BranchArrays)
       \cup PutEach(base, "default", {Null, O(NoKeys)} \cup Bodies)
       \cup {Put(Put(base, "branches", A(b)), "default", d) :
                b \in SeqsUpTo(BranchRaws, 1), d \in ShortBodies}
       \cup PutEach(base, "parallel", {B(TRUE), B(FALSE), N(1)})

\* containers one level deep, and containers holding them
Containers1 ==
    UNION {{NoId(Put(BaseForLoop, "modules", A(<<l>>))),
            NoId(O([type |-> S("branchone"),
                    branches |-> A(<<O([expr |-> S("e"), modules |-> A(<<l>>)])>>)])),
            NoId(O([type |-> S("branchall"), default |-> A(<<l>>)]))} :
           l \in NestedLeaves}
Containers2 ==
    UNION {{NoId(Put(BaseForLoop, "modules", A(<<c>>))),
            WithId("m1", Put(BaseForLoop, "modules", A(<<NoId(IdentityValue), c>>)))} :
           c \in Containers1}

TopModules ==
    ModuleVariants
    \cup {WithId("m1", v) : v \in RawScriptValues \cup ScriptValues \cup ForLoopValues}
    \cup {WithId("m1", v) : v \in ForLoopBodies} \cup {NoId(v) : v \in ForLoopBodies}
    \cup {WithId("m1", v) : v \in BranchValues("branchone") \cup BranchValues("branchall")}
    \cup {NoId(v) : v \in BranchValues("branchone") \cup BranchValues("branchall")}
    \cup Containers2

Doc(modules) == O([value |-> O([modules |-> modules])])

BaseRoot == O([summary |-> S("t"), description |-> S("d"),
               value |-> O([modules |-> A(<<BaseModule>>), same_worker |-> B(TRUE)]),
               schema |-> O([type |-> S("object")])])
BaseRootValue == BaseRoot.o.value
RootVariants ==
    {BaseRoot, Drop(BaseRoot, "value"), O(NoKeys)}
    \cup {Undef, Null, N(0), N(5), S(""), S("x"), B(TRUE), B(FALSE), A(<<>>), A(<<BaseRoot>>)}
    \cup PutEach(BaseRoot, "summary", {S(""), N(5), Null})
    \cup PutEach(BaseRoot, "description", {S(""), N(5), Null})
    \cup PutEach(BaseRoot, "schema", {Null, A(<<>>), S("x"), N(1), O(NoKeys)})
    \cup PutEach(BaseRoot, "value",
           {Null, N(0), N(5), S(""), S("v"), B(TRUE), A(<<>>), A(<<BaseModule>>), O(NoKeys)})
    \cup {Put(BaseRoot, "value", v) :
            v \in PutEach(BaseRootValue, "modules", {Null, N(5), S("x"), O(NoKeys)})
                  \cup PutEach(BaseRootValue, "same_worker",
                         {B(FALSE), S("true"), N(1), Null})
                  \cup {Drop(BaseRootValue, "same_worker")}}

FailureRaws ==
    {Null, N(0), N(5), S("x"), A(<<>>)} \cup ModuleVariants \cup Containers1

Inputs ==
    RootVariants
    \cup {Doc(A(<<m>>)) : m \in TopModules}
    \cup {Doc(A(ms)) : ms \in SeqsUpTo(NestedLeaves \cup Containers1, MaxLen)}
    \cup {O([value |-> O([modules |-> A(<<NoId(IdentityValue)>>), failure_module |-> f])]) :
            f \in FailureRaws}

StoreIdle ==
    /\ currentFlow = Null
    /\ isDirty = FALSE
    /\ selectedModuleId = Null
    /\ nodePositions = NoKeys
    /\ last = [op |-> "init"]
    /\ isLoading = FALSE
    /\ confirmed = FALSE

CodecInit ==
    /\ raw \in Inputs
    /\ clock \in Clocks
    /\ pc = "start"
    /\ res = Undef
    /\ json = Undef
    /\ res2 = Undef
    /\ json2 = Undef
    /\ StoreIdle

Parse ==
    /\ pc = "start"
    /\ res' = fromJson(raw, clock)
    /\ pc' = IF res'.ok THEN "parsed" ELSE "failed"
    /\ UNCHANGED <<raw, clock, json, res2, json2, currentFlow, isDirty,
                   selectedModuleId, nodePositions, last, isLoading, confirmed>>

Serialize ==
    /\ pc = "parsed"
    /\ json' = toJson(res.val)
    /\ pc' = "serialized"
    /\ UNCHANGED <<raw, clock, res, res2, json2, currentFlow, isDirty,
                   selectedModuleId, nodePositions, last, isLoading, confirmed>>

Reparse ==
    /\ pc = "serialized"
    /\ \E c \in Clocks : res2' = fromJson(json, c)
    /\ pc' = "reparsed"
    /\ UNCHANGED <<raw, clock, res, json, json2, currentFlow, isDirty,
                   selectedModuleId, nodePositions, last, isLoading, confirmed>>

Reserialize ==
    /\ pc = "reparsed"
    /\ res2.ok
    /\ json2' = toJson(res2.val)
    /\ pc' = "reserialized"
    /\ UNCHANGED <<raw, clock, res, json, res2, currentFlow, isDirty,
                   selectedModuleId, nodePositions, last, isLoading, confirmed>>

CodecNext == Parse \/ Serialize \/ Reparse \/ Reserialize

CodecSpec == CodecInit /\ [][CodecNext]_vars

-----------------------------------------------------------------------------
(* The editor store (useNodeHandlers.ts, "Store Implementation")           *)

MaxModules == 2

\* what Math.random().toString(36).substr(2, 9) may return
RandomSuffixes == {"k3x", "q9z"}
ModuleTypes == {"identity", "rawscript", "script", "forloopflow", "branchone", "branchall"}
\* the types the user adds here, and where nodes are dragged to
AddedTypes == {"identity"}
Positions == {[x |-> 250, y |-> 100]}

\* a createDefaultModule that sets the tag and nothing else
createDefaultModule_Bare(type, id) ==
    [id |-> id, value |-> [type |-> S(type)], summary |-> Undef]

createDefaultModule(type, id) ==
    CASE type = "identity" ->
            [id |-> id, value |-> [type |-> S("identity")],
             summary |-> S("Identity (pass-through)")]
      [] type = "rawscript" ->
            [id |-> id,
             value |-> [type |-> S("rawscript"),
                        content |-> S("// Write your script here\n\nexport function main() {\n  return \"Hello, World!\";\n}"),
                        language |-> S("deno"),
                        input_transforms |-> NoKeys],
             summary |-> S("Raw Script")]
      [] type = "script" ->
            [id |-> id,
             value |-> [type |-> S("script"), path |-> S(""), input_transforms |-> NoKeys],
             summary |-> S("Script from Path")]
      [] type = "forloopflow" ->
            [id |-> id,
             value |-> [type |-> S("forloopflow"),
                        modules |-> <<>>,
                        iterator |-> [type |-> S("javascript"), expr |-> S("[1, 2, 3]")],
                        skip_failures |-> B(FALSE)],
             summary |-> S("For Loop")]
      [] type = "branchone" ->
            [id |-> id,
             value |-> [type |-> S("branchone"),
                        branches |-> <<[expr |-> S("true"), modules |-> <<>>,
                                        summary |-> S("Branch 1")]>>,
                        default |-> <<>>],
             summary |-> S("Branch (One)")]
      [] type = "branchall" ->
            [id |-> id,
             value |-> [type |-> S("branchall"),
                        branches |-> <<[skip_failure |-> B(FALSE), modules |-> <<>>,
                                        summary |-> S("Parallel Branch 1")]>>,
                        default |-> <<>>],
             summary |-> S("Branch (All)")]

\* what reading m.id throws when m is an undefined entry of the sequence
undefinedModule == Throw("TypeError", "Cannot read properties of undefined (reading 'id')")

\* the callback (m) => m.id === id reaches an undefined entry before it
\* finds a match: findIndex and find throw
findThrows(modules, id) ==
    \E i \in DOMAIN modules :
        /\ modules[i] = Undef
        /\ \A h \in 1..(i - 1) : modules[h] # Undef /\ modules[h].id # id

\* modules.findIndex((m) => m.id === id), counted from 0; -1 when none
findIndex(modules, id) ==
    IF \E i \in DOMAIN modules : modules[i] # Undef /\ modules[i].id = id
    THEN (CHOOSE i \in DOMAIN modules :
             /\ modules[i] # Undef /\ modules[i].id = id
             /\ \A h \in 1..(i - 1) : modules[h] = Undef \/ modules[h].id # id) - 1
    ELSE -1

\* where splice(start, ...) starts in an array of len elements
spliceStart(len, start) ==
    IF start < 0 THEN (IF len + start < 0 THEN 0 ELSE len + start)
    ELSE IF start > len THEN len ELSE start

\* modules.splice(index, 0, module), index counted from 0
spliceIn(modules, index, module) ==
    SubSeq(modules, 1, spliceStart(Len(modules), index)) \o <<module>>
    \o SubSeq(modules, spliceStart(Len(modules), index) + 1, Len(modules))

\* modules.splice(index, 1), index counted from 0
spliceOut(modules, index) ==
    SubSeq(modules, 1, spliceStart(Len(modules), index))
    \o SubSeq(modules, spliceStart(Len(modules), index) + 2, Len(modules))

\* const [movedModule] = modules.splice(index, 1): undefined when nothing is removed
spliced(modules, index) ==
    IF spliceStart(Len(modules), index) < Len(modules)
    THEN modules[spliceStart(Len(modules), index) + 1] ELSE Undef

\* Object.assign(module, updates)
assign(module, updates) ==
    [key \in DOMAIN module \cup DOMAIN updates |->
        IF key \in DOMAIN updates THEN updates[key] ELSE module[key]]

\* delete nodePositions[id]
deleteKey(obj, key) == [k \in DOMAIN obj \ {key} |-> obj[k]]

emptyFlow ==
    [summary |-> S("New Flow"),
     description |-> S(""),
     value |-> [modules |-> <<>>, same_worker |-> B(FALSE)],
     schema |-> O([type |-> S("object"), properties |-> O(NoKeys)])]

\* a loop whose body holds a module with the id of a top-level module
NestedRoot ==
    Doc(A(<<WithId("m1", IdentityValue),
            WithId("f1", Put(BaseForLoop, "modules", A(<<WithId("m1", IdentityValue)>>)))>>))

\* the documents the user opens: two that parse, and one for each way
\* fromJson fails
LoadInputs ==
    {BaseRoot,
     NestedRoot,
     Doc(A(<<WithId("m1", O([type |-> S("bogus")]))>>)),
     Doc(A(<<WithId("m1", IdentityValue),
             WithId("m2", O([type |-> S("branchone"), branches |-> A(<<Null>>)]))>>)),
     Drop(BaseRoot, "value")}

\* the documents opened to add modules to: three modules; two modules, the
\* first with the empty string as its id
AddInputs ==
    {Doc(A(<<WithId("a", IdentityValue), WithId("b", IdentityValue),
             WithId("c", IdentityValue)>>)),
     Doc(A(<<WithId("", IdentityValue), WithId("m2", IdentityValue)>>))}

\* the modules of the documents the canvas draws
Leaf(id) == WithId(id, IdentityValue)
Loop(id, body) == WithId(id, Put(BaseForLoop, "modules", A(body)))
Branching(type, id, branches, default) ==
    WithId(id, O([type |-> S(type),
                  branches |-> A([k \in DOMAIN branches |->
                                    O([expr |-> S("e"), modules |-> A(branches[k])])]),
                  default |-> A(default)]))

\* the documents the canvas draws: every sequence of up to three plain
\* modules with ids a and b (ids repeated or not), and documents with loops
\* and branches, nested in each other, empty, with repeated ids, with the
\* empty id, and with ids that contain the separator of the edge ids
CanvasInputs ==
    {Doc(A(ms)) : ms \in SeqsUpTo({Leaf("a"), Leaf("b")}, 3)}
    \cup {Doc(A(<<Leaf("a"), Leaf("b"), Leaf("c")>>)),
          Doc(A(<<Loop("f", <<Leaf("x"), Leaf("y")>>), Leaf("b")>>)),
          Doc(A(<<Leaf("a"), Loop("f", <<>>), Leaf("b")>>)),
          Doc(A(<<Leaf("a"),
                  Branching("branchone", "g",
                            <<(<<Leaf("x"), Leaf("y")>>), (<<Leaf("z")>>), (<<>>)>>,
                            <<Leaf("d")>>),
                  Leaf("b")>>)),
          Doc(A(<<Branching("branchall", "g", <<(<<Leaf("x")>>)>>, <<>>), Leaf("b")>>)),
          Doc(A(<<Loop("f", <<Loop("h", <<Leaf("x")>>), Leaf("y")>>)>>)),
          Doc(A(<<Leaf("a"), Loop("b", <<Leaf("x")>>)>>)),
          Doc(A(<<Loop("a", <<Leaf("a"), Leaf("a")>>), Leaf("a")>>)),
          Doc(A(<<Leaf("a"), Loop("f", <<Leaf("a"), Leaf("f")>>)>>)),
          Doc(A(<<Leaf(""), Leaf("b")>>)),
          Doc(A(<<Leaf("a-b"), Leaf("c"), Leaf("a"), Leaf("b-c")>>))}

\* const flow = fromJson(json) for each document opened and each reading of
\* the clock: fromJson is a function of the two
fromJsonOf ==
    [j \in LoadInputs \cup AddInputs \cup CanvasInputs, clk \in Clocks |-> fromJson(j, clk)]

\* the ids the panels may name: of loaded modules and of an added one,
\* present in the document or not
KnownIds == {S("m1"), S("f1"), S("module_" \o ToString(ClockBase) \o "_k3x")}

\* the nodes the user drags
DraggedIds == {S("m1")}

\* the partial updates the panels send: a new summary; a new id and variant
ModuleUpdates ==
    {[summary |-> S("renamed")],
     [id |-> S("m2"),
      value |-> [type |-> S("script"), path |-> S("hub/x"), input_transforms |-> NoKeys]]}
MetadataUpdates == {[summary |-> S("renamed"), schema |-> Undef]}
ReorderIndexes == {0, 1}

\* the ids of the top-level modules, which the canvas shows
TopIds ==
    IF currentFlow = Null THEN {}
    ELSE {currentFlow.value.modules[i].id :
             i \in {h \in DOMAIN currentFlow.value.modules :
                       currentFlow.value.modules[h] # Undef}}

CodecIdle ==
    /\ raw = Undef
    /\ clock = [base |-> ClockBase, ticks |-> {}]
    /\ pc = "idle"
    /\ res = Undef
    /\ json = Undef
    /\ res2 = Undef
    /\ json2 = Undef

Init == CodecIdle /\ StoreIdle

\* set((state) => { ... }) of setFlow
setFlow(flow) ==
    /\ currentFlow' = flow
    /\ isDirty' = FALSE
    /\ selectedModuleId' = Null
    /\ nodePositions' = NoKeys

Done(op) == [op |-> op, threw |-> FALSE]

\* an exception leaves the producer of set(): the draft is dropped, the
\* state stays, and the caller gets the exception
Raised(op, error) ==
    /\ last' = [op |-> op, threw |-> TRUE, error |-> error]
    /\ UNCHANGED <<currentFlow, isDirty, selectedModuleId, nodePositions>>

\* a producer that returns at once
Returned(op) ==
    /\ last' = Done(op)
    /\ UNCHANGED <<currentFlow, isDirty, selectedModuleId, nodePositions>>

\* a loadFromJson that clears the store before it parses
LoadFromJson_ClearFirst(j, clk) ==
    LET r == fromJsonOf[j, clk] IN
    /\ setFlow(IF r.ok THEN r.val ELSE Null)
    /\ last' = [op |-> "loadFromJson", json |-> j, threw |-> ~r.ok,
                error |-> IF r.ok THEN Undef ELSE r]
    /\ UNCHANGED <<codecVars, toolbarVars>>

LoadFromJson(j, clk) ==
    LET r == fromJsonOf[j, clk] IN
    /\ IF r.ok THEN setFlow(r.val)
       ELSE UNCHANGED <<currentFlow, isDirty, selectedModuleId, nodePositions>>
    /\ last' = [op |-> "loadFromJson", json |-> j, threw |-> ~r.ok,
                error |-> IF r.ok THEN Undef ELSE r]
    /\ UNCHANGED <<codecVars, toolbarVars>>

\* the throw statements and faults met while serializing, as toJson left them
RECURSIVE Throws(_)
Throws(x) ==
    IF IsNode(x) THEN {}
    ELSE IF x.t = "throw" THEN {x}
    ELSE IF x.t = "arr" THEN UNION {Throws(x.a[i]) : i \in DOMAIN x.a}
    ELSE IF x.t = "obj" THEN UNION {Throws(x.o[key]) : key \in DOMAIN x.o}
    ELSE {}

ExportToJson ==
    /\ last' = [op |-> "exportToJson",
                threw |-> IF currentFlow = Null THEN FALSE
                          ELSE Throws(toJson(currentFlow)) # {}]
    /\ UNCHANGED <<currentFlow, isDirty, selectedModuleId, nodePositions>>
    /\ UNCHANGED <<codecVars, toolbarVars>>

\* a newFlow that keeps the selection and the node positions
NewFlow_KeepView ==
    /\ currentFlow' = emptyFlow
    /\ isDirty' = FALSE
    /\ UNCHANGED <<selectedModuleId, nodePositions>>
    /\ last' = Done("newFlow")
    /\ UNCHANGED <<codecVars, toolbarVars>>

NewFlow ==
    /\ setFlow(emptyFlow)
    /\ last' = Done("newFlow")
    /\ UNCHANGED <<codecVars, toolbarVars>>

UpdateFlowMetadata(updates) ==
    /\ UNCHANGED <<codecVars, toolbarVars>>
    /\ IF currentFlow = Null THEN Returned("updateFlowMetadata")
       ELSE /\ currentFlow' =
                  [key \in DOMAIN currentFlow
                            \cup {f \in {"summary", "description", "schema"} :
                                     Prop(updates, f) # Undef} |->
                      IF key \in {"summary", "description", "schema"}
                         /\ Prop(updates, key) # Undef
                      THEN updates[key] ELSE currentFlow[key]]
            /\ isDirty' = TRUE
            /\ last' = Done("updateFlowMetadata")
            /\ UNCHANGED <<selectedModuleId, nodePositions>>

\* an updateSameWorker that does not touch isDirty
UpdateSameWorker_Silent(sameWorker) ==
    /\ UNCHANGED <<codecVars, toolbarVars>>
    /\ IF currentFlow = Null THEN Returned("updateSameWorker")
       ELSE /\ currentFlow' = [currentFlow EXCEPT !.value.same_worker = B(sameWorker)]
            /\ last' = Done("updateSameWorker")
            /\ UNCHANGED <<isDirty, selectedModuleId, nodePositions>>

UpdateSameWorker(sameWorker) ==
    /\ UNCHANGED <<codecVars, toolbarVars>>
    /\ IF currentFlow = Null THEN Returned("updateSameWorker")
       ELSE /\ currentFlow' = [currentFlow EXCEPT !.value.same_worker = B(sameWorker)]
            /\ isDirty' = TRUE
            /\ last' = Done("updateSameWorker")
            /\ UNCHANGED <<selectedModuleId, nodePositions>>

SelectModule(id) ==
    /\ selectedModuleId' = id
    /\ last' = Done("selectModule")
    /\ UNCHANGED <<currentFlow, isDirty, nodePositions>>
    /\ UNCHANGED <<codecVars, toolbarVars>>

\* the store holds documents of at most MaxModules top-level entries
Room == IF currentFlow = Null THEN TRUE ELSE Len(currentFlow.value.modules) < MaxModules

AddModule(moduleType, afterId, now, random) ==
    /\ UNCHANGED <<codecVars, toolbarVars>>
    /\ IF currentFlow = Null THEN Returned("addModule")
       ELSE IF Truthy(afterId) /\ findThrows(currentFlow.value.modules, afterId)
       THEN Raised("addModule", undefinedModule)
       ELSE LET newId == S("module_" \o ToString(now) \o "_" \o random)
                newModule == createDefaultModule(moduleType, newId)
                modules == currentFlow.value.modules
                index == IF Truthy(afterId) THEN findIndex(modules, afterId) ELSE -1
            IN /\ currentFlow' =
                     [currentFlow EXCEPT !.value.modules =
                         IF index # -1 THEN spliceIn(modules, index + 1, newModule)
                         ELSE Append(modules, newModule)]
               /\ selectedModuleId' = newId
               /\ isDirty' = TRUE
               /\ last' = Done("addModule")
               /\ UNCHANGED nodePositions

UpdateModule(id, updates) ==
    /\ UNCHANGED <<codecVars, toolbarVars>>
    /\ IF currentFlow = Null THEN Returned("updateModule")
       ELSE IF findThrows(currentFlow.value.modules, id)
       THEN Raised("updateModule", undefinedModule)
       ELSE IF findIndex(currentFlow.value.modules, id) = -1 THEN Returned("updateModule")
       ELSE /\ currentFlow' =
                  [currentFlow EXCEPT
                      !.value.modules[findIndex(currentFlow.value.modules, id) + 1] =
                          assign(@, updates)]
            /\ isDirty' = TRUE
            /\ last' = Done("updateModule")
            /\ UNCHANGED <<selectedModuleId, nodePositions>>

\* a deleteModule that leaves the selection and the node positions alone
DeleteModule_KeepView(id) ==
    /\ UNCHANGED <<codecVars, toolbarVars>>
    /\ IF currentFlow = Null THEN Returned("deleteModule")
       ELSE IF findThrows(currentFlow.value.modules, id)
       THEN Raised("deleteModule", undefinedModule)
       ELSE IF findIndex(currentFlow.value.modules, id) = -1 THEN Returned("deleteModule")
       ELSE /\ currentFlow' =
                  [currentFlow EXCEPT !.value.modules =
                      spliceOut(@, findIndex(@, id))]
            /\ isDirty' = TRUE
            /\ last' = Done("deleteModule")
            /\ UNCHANGED <<selectedModuleId, nodePositions>>

DeleteModule(id) ==
    /\ UNCHANGED <<codecVars, toolbarVars>>
    /\ IF currentFlow = Null THEN Returned("deleteModule")
       ELSE IF findThrows(currentFlow.value.modules, id)
       THEN Raised("deleteModule", undefinedModule)
       ELSE IF findIndex(currentFlow.value.modules, id) = -1 THEN Returned("deleteModule")
       ELSE /\ currentFlow' =
                  [currentFlow EXCEPT !.value.modules =
                      spliceOut(@, findIndex(@, id))]
            /\ selectedModuleId' = IF selectedModuleId = id THEN Null ELSE selectedModuleId
            /\ nodePositions' = deleteKey(nodePositions, id.s)
            /\ isDirty' = TRUE
            /\ last' = Done("deleteModule")

\* a reorderModules that takes toIndex for an index of the sequence as it
\* was before the module was taken out
ReorderModules_ShiftedTarget(fromIndex, toIndex) ==
    /\ UNCHANGED <<codecVars, toolbarVars>>
    /\ IF currentFlow = Null THEN Returned("reorderModules")
       ELSE /\ IF spliced(currentFlow.value.modules, fromIndex) = Undef
                  /\ spliceStart(Len(currentFlow.value.modules), fromIndex)
                        >= Len(currentFlow.value.modules)
               THEN Room ELSE TRUE
            /\ currentFlow' =
                  [currentFlow EXCEPT !.value.modules =
                      spliceIn(spliceOut(@, fromIndex),
                               IF fromIndex < toIndex THEN toIndex - 1 ELSE toIndex,
                               spliced(@, fromIndex))]
            /\ isDirty' = TRUE
            /\ last' = Done("reorderModules")
            /\ UNCHANGED <<selectedModuleId, nodePositions>>

ReorderModules(fromIndex, toIndex) ==
    /\ UNCHANGED <<codecVars, toolbarVars>>
    /\ IF currentFlow = Null THEN Returned("reorderModules")
       ELSE /\ IF spliced(currentFlow.value.modules, fromIndex) = Undef
                  /\ spliceStart(Len(currentFlow.value.modules), fromIndex)
                        >= Len(currentFlow.value.modules)
               THEN Room ELSE TRUE
            /\ currentFlow' =
                  [currentFlow EXCEPT !.value.modules =
                      spliceIn(spliceOut(@, fromIndex), toIndex, spliced(@, fromIndex))]
            /\ isDirty' = TRUE
            /\ last' = Done("reorderModules")
            /\ UNCHANGED <<selectedModuleId, nodePositions>>

UpdateNodePosition(id, position) ==
    /\ nodePositions' = (id.s :> position) @@ nodePositions
    /\ last' = Done("updateNodePosition")
    /\ UNCHANGED <<currentFlow, isDirty, selectedModuleId>>
    /\ UNCHANGED <<codecVars, toolbarVars>>

MarkDirty ==
    /\ isDirty' = TRUE
    /\ last' = Done("markDirty")
    /\ UNCHANGED <<currentFlow, selectedModuleId, nodePositions>>
    /\ UNCHANGED <<codecVars, toolbarVars>>

MarkClean ==
    /\ isDirty' = FALSE
    /\ last' = Done("markClean")
    /\ UNCHANGED <<currentFlow, selectedModuleId, nodePositions>>
    /\ UNCHANGED <<codecVars, toolbarVars>>

Next ==
    \/ \E j \in LoadInputs : LoadFromJson(j, clock)
    \/ ExportToJson
    \/ NewFlow
    \/ \E updates \in MetadataUpdates : UpdateFlowMetadata(updates)
    \/ \E sameWorker \in {TRUE} : UpdateSameWorker(sameWorker)
    \/ \E id \in TopIds \cup {Null} : SelectModule(id)
    \/ \E moduleType \in AddedTypes, afterId \in {Undef, S("m1")},
          random \in RandomSuffixes :
          Room /\ AddModule(moduleType, afterId, DateNow(clock, 1), random)
    \/ \E id \in {S("m1")}, updates \in ModuleUpdates : UpdateModule(id, updates)
    \/ \E id \in KnownIds : DeleteModule(id)
    \/ \E fromIndex \in ReorderIndexes, toIndex \in ReorderIndexes :
          ReorderModules(fromIndex, toIndex)
    \/ \E id \in TopIds \cap DraggedIds, position \in Positions :
          UpdateNodePosition(id, position)
    \/ MarkDirty
    \/ MarkClean

Spec == Init /\ [][Next]_vars

\* the updates of the panels that do not name the id
KeepingId == {updates \in ModuleUpdates : "id" \notin DOMAIN updates}

\* the store when no panel renames a module
ViewNext ==
    \/ \E j \in LoadInputs : LoadFromJson(j, clock)
    \/ ExportToJson
    \/ NewFlow
    \/ \E updates \in MetadataUpdates : UpdateFlowMetadata(updates)
    \/ \E sameWorker \in {TRUE} : UpdateSameWorker(sameWorker)
    \/ \E id \in TopIds \cup {Null} : SelectModule(id)
    \/ \E moduleType \in AddedTypes, afterId \in {Undef, S("m1")},
          random \in RandomSuffixes :
          Room /\ AddModule(moduleType, afterId, DateNow(clock, 1), random)
    \/ \E id \in {S("m1")}, updates \in KeepingId : UpdateModule(id, updates)
    \/ \E id \in KnownIds : DeleteModule(id)
    \/ \E fromIndex \in ReorderIndexes, toIndex \in ReorderIndexes :
          ReorderModules(fromIndex, toIndex)
    \/ \E id \in TopIds \cap DraggedIds, position \in Positions :
          UpdateNodePosition(id, position)
    \/ MarkDirty
    \/ MarkClean

ViewSpec == Init /\ [][ViewNext]_vars

-----------------------------------------------------------------------------
(* Edge derivation (useNodeHandlers.ts, "React Flow Edge Derivation")      *)

\* `${source}-${target}`
generateEdgeId(source, target) == source.s \o "-" \o target.s

\* a deriveEdges that draws no edge from a module to a module of the same id
RECURSIVE deriveEdgesFrom_NoSelfLoop(_, _)
deriveEdgesFrom_NoSelfLoop(modules, i) ==
    IF i > Len(modules) - 1 THEN [threw |-> FALSE, edges |-> <<>>]
    ELSE IF modules[i] = Undef \/ modules[i + 1] = Undef
    THEN [threw |-> TRUE, edges |-> <<>>]
    ELSE [threw |-> deriveEdgesFrom_NoSelfLoop(modules, i + 1).threw,
          edges |-> (IF modules[i].id = modules[i + 1].id THEN <<>>
                     ELSE <<[id |-> generateEdgeId(modules[i].id, modules[i + 1].id),
                             source |-> modules[i].id,
                             target |-> modules[i + 1].id]>>)
                    \o deriveEdgesFrom_NoSelfLoop(modules, i + 1).edges]

\* the edges pushed so far; threw: the loop read a property of an undefined
\* entry and the TypeError left the function
RECURSIVE deriveEdgesFrom(_, _)
deriveEdgesFrom(modules, i) ==
    IF i > Len(modules) - 1 THEN [threw |-> FALSE, edges |-> <<>>]
    ELSE IF modules[i] = Undef \/ modules[i + 1] = Undef
    THEN [threw |-> TRUE, edges |-> <<>>]
    ELSE [threw |-> deriveEdgesFrom(modules, i + 1).threw,
          edges |-> <<[id |-> generateEdgeId(modules[i].id, modules[i + 1].id),
                       source |-> modules[i].id,
                       target |-> modules[i + 1].id]>>
                    \o deriveEdgesFrom(modules, i + 1).edges]

deriveEdges(modules) == deriveEdgesFrom(modules, 1)

\* a connect that pushes the edge whether or not visited has its id
connect_Unchecked(st, source, target) ==
    [st EXCEPT !.edges = Append(@, [id |-> generateEdgeId(source, target),
                                    source |-> source, target |-> target]),
               !.visited = @ \cup {generateEdgeId(source, target)}]

\* edges.push({...}); visited.add(...) unless visited has the edge id
connect(st, source, target) ==
    IF generateEdgeId(source, target) \in st.visited THEN st
    ELSE [st EXCEPT !.edges = Append(@, [id |-> generateEdgeId(source, target),
                                         source |-> source, target |-> target]),
                    !.visited = @ \cup {generateEdgeId(source, target)}]

RECURSIVE processModules(_, _, _, _, _)
RECURSIVE processNestedModule(_, _)
RECURSIVE processBranches(_, _, _, _)

\* "Connect to parent if this is the first module in a nested structure",
\* then "Connect to previous sibling"
connected(module, first, parentId, lastId, st) ==
    IF Truthy(lastId)
    THEN connect(IF first /\ Truthy(parentId) THEN connect(st, parentId, module.id) ELSE st,
                 lastId, module.id)
    ELSE IF first /\ Truthy(parentId) THEN connect(st, parentId, module.id) ELSE st

\* lastId = nestedLastId ?? module.id, and on to the next iteration
iterate(moduleList, i, parentId, nested) ==
    processModules(moduleList, i + 1, parentId,
                   IF nested.ret = Null THEN moduleList[i].id ELSE nested.ret,
                   nested.st)

\* the for loop of processModules from index i on (counted from 1), with
\* lastId as the iterations before left it; st is edges and visited, and
\* threw once the loop has read a property of an undefined entry
processModules(moduleList, i, parentId, lastId, st) ==
    IF st.threw \/ i > Len(moduleList) THEN [st |-> st, ret |-> lastId]
    ELSE IF moduleList[i] = Undef
    THEN [st |-> [st EXCEPT !.threw = TRUE], ret |-> lastId]
    ELSE iterate(moduleList, i, parentId,
                 processNestedModule(moduleList[i],
                     connected(moduleList[i], i = 1, parentId, lastId, st)))

\* value.branches.forEach((branch) => processModules(branch.modules, module.id))
processBranches(branches, i, parentId, st) ==
    IF i > Len(branches) THEN st
    ELSE processBranches(branches, i + 1, parentId,
                         processModules(branches[i].modules, 1, parentId, Null, st).st)

processNestedModule(module, st) ==
    IF module.value.type = S("forloopflow")
    THEN processModules(module.value.modules, 1, module.id, Null, st)
    ELSE IF module.value.type \in {S("branchone"), S("branchall")}
    THEN [st |-> IF module.value.default # <<>>
                 THEN processModules(module.value.default, 1, module.id, Null,
                          processBranches(module.value.branches, 1, module.id, st)).st
                 ELSE processBranches(module.value.branches, 1, module.id, st),
          ret |-> Null]
    ELSE [st |-> st, ret |-> Null]

deriveEdgesWithNested(modules) ==
    processModules(modules, 1, Undef, Null,
                   [edges |-> <<>>, visited |-> {}, threw |-> FALSE]).st

-----------------------------------------------------------------------------
(* addModule on opened documents: every variant, every kind of afterId     *)

AddMaxModules == 4

\* afterId: left out, the empty string, the id of a module of the first
\* document, an id that no module has
AfterIds == {Undef, S(""), S("b"), S("missing")}

AddRoom ==
    IF currentFlow = Null THEN TRUE
    ELSE Len(currentFlow.value.modules) < AddMaxModules

AddNext ==
    \/ \E j \in AddInputs : LoadFromJson(j, clock)
    \/ \E moduleType \in ModuleTypes, afterId \in AfterIds, random \in RandomSuffixes :
          AddRoom /\ AddModule(moduleType, afterId, DateNow(clock, 1), random)

AddSpec == Init /\ [][AddNext]_vars

-----------------------------------------------------------------------------
(* DAG validation (useNodeHandlers.ts, "DAG Validation")                   *)

\* the adjacency list: graph.get(source)!.push(target) for each consecutive
\* pair, the targets of one source in the order of the pairs
graphOf(modules) ==
    [source \in {modules[i].id : i \in 1..(Len(modules) - 1)} |->
        LET pairs == SelectSeq([i \in 1..(Len(modules) - 1) |->
                                   <<modules[i].id, modules[i + 1].id>>],
                               LAMBDA pair : pair[1] = source)
        IN [k \in DOMAIN pairs |-> pairs[k][2]]]

RECURSIVE hasCycle(_, _, _)
RECURSIVE neighborsFrom(_, _, _, _)

\* a hasCycle loop that passes over a visited neighbor without looking for it
\* in recursionStack
RECURSIVE neighborsFrom_NoBackEdge(_, _, _, _)
neighborsFrom_NoBackEdge(graph, nodeId, k, st) ==
    LET neighbors == IF nodeId \in DOMAIN graph THEN graph[nodeId] ELSE <<>>
    IN IF k > Len(neighbors)
       THEN [visited |-> st.visited,
             recursionStack |-> st.recursionStack \ {nodeId},
             cycle |-> FALSE]
       ELSE IF neighbors[k] \notin st.visited
       THEN IF hasCycle(graph, neighbors[k], st).cycle
            THEN hasCycle(graph, neighbors[k], st)
            ELSE neighborsFrom_NoBackEdge(graph, nodeId, k + 1,
                     [visited |-> hasCycle(graph, neighbors[k], st).visited,
                      recursionStack |-> hasCycle(graph, neighbors[k], st).recursionStack])
       ELSE neighborsFrom_NoBackEdge(graph, nodeId, k + 1, st)

\* the for loop of hasCycle over graph.get(nodeId) || [] from the k-th
\* neighbor on; st is visited and recursionStack
neighborsFrom(graph, nodeId, k, st) ==
    LET neighbors == IF nodeId \in DOMAIN graph THEN graph[nodeId] ELSE <<>>
    IN IF k > Len(neighbors)
       THEN [visited |-> st.visited,
             recursionStack |-> st.recursionStack \ {nodeId},
             cycle |-> FALSE]
       ELSE IF neighbors[k] \notin st.visited
       THEN IF hasCycle(graph, neighbors[k], st).cycle
            THEN hasCycle(graph, neighbors[k], st)
            ELSE neighborsFrom(graph, nodeId, k + 1,
                     [visited |-> hasCycle(graph, neighbors[k], st).visited,
                      recursionStack |-> hasCycle(graph, neighbors[k], st).recursionStack])
       ELSE IF neighbors[k] \in st.recursionStack
       THEN [visited |-> st.visited, recursionStack |-> st.recursionStack, cycle |-> TRUE]
       ELSE neighborsFrom(graph, nodeId, k + 1, st)

hasCycle(graph, nodeId, st) ==
    neighborsFrom(graph, nodeId, 1,
                  [visited |-> st.visited \cup {nodeId},
                   recursionStack |-> st.recursionStack \cup {nodeId}])

\* "Check all nodes": the for loop over modules from index i on; FALSE as
\* soon as a search finds a cycle
RECURSIVE checkAllNodes(_, _, _, _)
checkAllNodes(graph, modules, i, st) ==
    IF i > Len(modules) THEN TRUE
    ELSE IF modules[i].id \in st.visited THEN checkAllNodes(graph, modules, i + 1, st)
    ELSE IF hasCycle(graph, modules[i].id, st).cycle THEN FALSE
    ELSE checkAllNodes(graph, modules, i + 1,
             [visited |-> hasCycle(graph, modules[i].id, st).visited,
              recursionStack |-> hasCycle(graph, modules[i].id, st).recursionStack])

\* threw: one of the two loops read the id of an undefined entry (the first
\* loop reads every entry of a sequence of two or more, the last loop every
\* entry it reaches, and no search ends it before an undefined entry whose
\* id the first loop did not read)
validateDAG(modules) ==
    IF \E i \in DOMAIN modules : modules[i] = Undef
    THEN [threw |-> TRUE, valid |-> Undef]
    ELSE [threw |-> FALSE,
          valid |-> B(checkAllNodes(graphOf(modules), modules, 1,
                                    [visited |-> {}, recursionStack |-> {}]))]

-----------------------------------------------------------------------------
(* The canvas: documents opened, rearranged and drawn                      *)

\* the indexes a drag hands to reorderModules: inside the sequence, one
\* before its start, and up to one past the end of a three-module sequence
CanvasIndexes == {-1, 0, 1, 2, 3}

\* const edges = deriveEdges(modules) of the canvas
DeriveEdges ==
    /\ currentFlow # Null
    /\ last' = [op |-> "deriveEdges",
                threw |-> deriveEdges(currentFlow.value.modules).threw,
                edges |-> deriveEdges(currentFlow.value.modules).edges]
    /\ UNCHANGED <<currentFlow, isDirty, selectedModuleId, nodePositions>>
    /\ UNCHANGED <<codecVars, toolbarVars>>

DeriveEdgesWithNested ==
    /\ currentFlow # Null
    /\ last' = [op |-> "deriveEdgesWithNested",
                threw |-> deriveEdgesWithNested(currentFlow.value.modules).threw,
                edges |-> deriveEdgesWithNested(currentFlow.value.modules).edges]
    /\ UNCHANGED <<currentFlow, isDirty, selectedModuleId, nodePositions>>
    /\ UNCHANGED <<codecVars, toolbarVars>>

ValidateDAG ==
    /\ currentFlow # Null
    /\ last' = [op |-> "validateDAG",
                threw |-> validateDAG(currentFlow.value.modules).threw,
                valid |-> validateDAG(currentFlow.value.modules).valid]
    /\ UNCHANGED <<currentFlow, isDirty, selectedModuleId, nodePositions>>
    /\ UNCHANGED <<codecVars, toolbarVars>>

CanvasNext ==
    \/ \E j \in CanvasInputs : LoadFromJson(j, clock)
    \/ \E fromIndex \in CanvasIndexes, toIndex \in CanvasIndexes :
          ReorderModules(fromIndex, toIndex)
    \/ DeriveEdges
    \/ DeriveEdgesWithNested
    \/ ValidateDAG

CanvasSpec == Init /\ [][CanvasNext]_vars

-----------------------------------------------------------------------------
(* The toolbar's Open (Toolbar.tsx, handleOpen; uploadJson)                *)

\* what handleOpen does before it awaits the file: it asks for confirmation
\* when the document is dirty and returns on a no; else setIsLoading(true)
\* and uploadJson() is pending. The Open button is disabled while isLoading.
HandleOpen ==
    /\ ~isLoading
    /\ \E answer \in BOOLEAN :
          IF isDirty /\ ~answer
          THEN UNCHANGED toolbarVars
          ELSE /\ isLoading' = TRUE
               /\ confirmed' = isDirty
    /\ last' = Done("handleOpen")
    /\ UNCHANGED <<currentFlow, isDirty, selectedModuleId, nodePositions>>
    /\ UNCHANGED codecVars

\* uploadJson resolved with the parsed text of the file: loadFromJson(json),
\* markClean() when it did not throw (isDirty is false by then), the catch
\* when it did, and setIsLoading(false)
FileRead(j) ==
    /\ isLoading
    /\ IF fromJsonOf[j, clock].ok THEN setFlow(fromJsonOf[j, clock].val)
       ELSE UNCHANGED <<currentFlow, isDirty, selectedModuleId, nodePositions>>
    /\ last' = [op |-> "loadFromJson", json |-> j, threw |-> ~fromJsonOf[j, clock].ok,
                error |-> IF fromJsonOf[j, clock].ok THEN Undef ELSE fromJsonOf[j, clock]]
    /\ isLoading' = FALSE
    /\ confirmed' = FALSE
    /\ UNCHANGED codecVars

\* uploadJson rejected: no file, reader.onerror, or JSON.parse threw
FileReadFailed ==
    /\ isLoading
    /\ last' = [op |-> "uploadJson", threw |-> TRUE]
    /\ isLoading' = FALSE
    /\ confirmed' = FALSE
    /\ UNCHANGED <<currentFlow, isDirty, selectedModuleId, nodePositions>>
    /\ UNCHANGED codecVars

\* Open, and what the panels do to the store before and while a file is read
ToolbarNext ==
    \/ HandleOpen
    \/ \E j \in LoadInputs : FileRead(j)
    \/ FileReadFailed
    \/ NewFlow
    \/ \E updates \in MetadataUpdates : UpdateFlowMetadata(updates)
    \/ \E moduleType \in AddedTypes, random \in RandomSuffixes :
          Room /\ AddModule(moduleType, Undef, DateNow(clock, 1), random)
    \/ \E id \in KnownIds : DeleteModule(id)
    \/ MarkClean

ToolbarSpec == Init /\ [][ToolbarNext]_vars

-----------------------------------------------------------------------------
(* What the claims speak of                                                *)

ValidTypes == {"identity", "rawscript", "script", "forloopflow", "branchone", "branchall"}
Languages == {"deno", "python3", "go", "bash", "postgresql", "mysql", "bigquery",
              "snowflake", "mssql", "graphql", "nativets"}

\* null, undefined or a scalar
IsNoObject(x) == x.t \in {"undefined", "null", "bool", "num", "str"}
IsRecognized(type) == type.t = "str" /\ type.s \in ValidTypes

RECURSIVE VisitsOfModule(_)
\* What fromJson meets at the places where it expects a module, when nothing
\* stops it earlier: the type tags that are not recognized, the entries and
\* module values that are no objects, the branch entries that are null.
VisitsOfArray(x) ==
    IF x.t = "arr" THEN UNION {VisitsOfModule(x.a[i]) : i \in DOMAIN x.a} ELSE {}
VisitsOfModule(m) ==
    IF IsNoObject(m) THEN {[what |-> "entry is no object"]}
    ELSE IF IsNoObject(Get(m, "value")) THEN {[what |-> "value is no object"]}
    ELSE IF ~IsRecognized(Get(Get(m, "value"), "type"))
    THEN {[what |-> "bad tag", tag |-> Get(Get(m, "value"), "type")]}
    ELSE IF Get(Get(m, "value"), "type") = S("forloopflow")
    THEN VisitsOfArray(Get(Get(m, "value"), "modules"))
    ELSE IF Get(Get(m, "value"), "type") \in {S("branchone"), S("branchall")}
    THEN VisitsOfArray(Get(Get(m, "value"), "default"))
         \cup (IF Get(Get(m, "value"), "branches").t = "arr"
               THEN UNION {IF b.t \in {"null", "undefined"}
                           THEN {[what |-> "branch is null"]}
                           ELSE VisitsOfArray(Get(b, "modules")) :
                           b \in {Get(Get(m, "value"), "branches").a[i] :
                                    i \in DOMAIN Get(Get(m, "value"), "branches").a}}
               ELSE {})
    ELSE {}
Visits(j) ==
    IF IsNoObject(j) \/ IsNoObject(Get(j, "value")) THEN {}
    ELSE VisitsOfArray(Get(Get(j, "value"), "modules"))
         \cup (IF Get(Get(j, "value"), "failure_module") \in
                     {Undef, Null, B(FALSE), N(0), S("")}
               THEN {} ELSE VisitsOfModule(Get(Get(j, "value"), "failure_module")))
BadTags(j) == {e.tag : e \in {e \in Visits(j) : e.what = "bad tag"}}
OnlyBadTags(j) == \A e \in Visits(j) : e.what = "bad tag"

RECURSIVE PairsOfModule(_, _, _)
\* Every module of a parsed document with the raw module it was parsed from,
\* at every nesting level: [path, raw, doc]
PairsOfArray(x, modules, path) ==
    UNION {PairsOfModule(x.a[i], modules[i], path \o "[" \o ToString(i - 1) \o "]") :
             i \in DOMAIN modules}
PairsOfModule(m, module, path) ==
    {[path |-> path, raw |-> m, doc |-> module]}
    \cup (IF module.value.type = S("forloopflow")
          THEN PairsOfArray(Get(Get(m, "value"), "modules"), module.value.modules,
                            path \o ".modules")
          ELSE IF module.value.type \in {S("branchone"), S("branchall")}
          THEN PairsOfArray(Get(Get(m, "value"), "default"), module.value.default,
                            path \o ".default")
               \cup UNION {PairsOfArray(
                               Get(Get(Get(m, "value"), "branches").a[i], "modules"),
                               module.value.branches[i].modules,
                               path \o ".branches[" \o ToString(i - 1) \o "]") :
                           i \in DOMAIN module.value.branches}
          ELSE {})
Pairs(j, flow) ==
    PairsOfArray(Get(Get(j, "value"), "modules"), flow.value.modules, "modules")
    \cup (IF flow.value.failure_module = Undef THEN {}
          ELSE PairsOfModule(Get(Get(j, "value"), "failure_module"),
                             flow.value.failure_module, "failure_module"))
Parsed == IF pc \in {"start", "failed"} THEN {} ELSE Pairs(raw, res.val)

-----------------------------------------------------------------------------
(* Claims about the codec, under CodecSpec                                 *)

\* C1: for every input on which fromJson succeeds, with d = fromJson(j),
\* fromJson(toJson(d)) succeeds and is deep-equal to d at every nesting level.
C1_RoundTrip == pc = "reparsed" => res2.ok /\ res2.val = res.val

\* C2: serialization is idempotent once parsed: for every document d produced
\* by fromJson, toJson(d) parses again and toJson(fromJson(toJson(d))) = toJson(d).
C2_Idempotent ==
    /\ pc \in {"reparsed", "reserialized"} => res2.ok
    /\ pc = "reserialized" => json2 = json
\* a document with a loop body and a transform went through both serializations
C2_Witness ==
    /\ pc = "reserialized"
    /\ json2 = json
    /\ \E e \in Parsed : /\ e.doc.value.type = S("forloopflow")
                         /\ e.doc.value.modules # <<>>
                         /\ e.doc.value.iterator.type = S("javascript")

UnknownTypeMessage(tag) == "Unknown module type: " \o JsString(tag)

\* C4: fromJson fails, returning no document, whenever a module object it
\* parses has a value whose type is missing or is not one of the six tags; when
\* nothing else is wrong with the input, the failure is the unknown-type Error
\* and its message carries an offending tag.
C4_StrictTags ==
    (pc # "start" /\ BadTags(raw) # {}) =>
        /\ ~res.ok
        /\ "val" \notin DOMAIN res
        /\ OnlyBadTags(raw) =>
              /\ res.name = "Error"
              /\ \E tag \in BadTags(raw) : res.message = UnknownTypeMessage(tag)
\* a module with an unrecognized tag inside a loop body made the parse fail with its tag
C4_Witness ==
    /\ pc = "failed"
    /\ BadTags(raw) = {S("bogus")}
    /\ res.message = "Unknown module type: bogus"
    /\ Get(Get(raw, "value"), "modules").t = "arr"
    /\ Len(Get(Get(raw, "value"), "modules").a) = 1
    /\ Get(Get(Get(Get(raw, "value"), "modules").a[1], "value"), "type") = S("forloopflow")

MissingValueMessage == "Invalid OpenFlow JSON: missing or invalid value field"

\* C5: fromJson fails when its input is null, undefined or a scalar, and when
\* the input's value field is absent or is null or a scalar; in the second case
\* the message is the missing-or-invalid-value-field message.
C5_RootChecks ==
    pc # "start" =>
        /\ IsNoObject(raw) => ~res.ok
        /\ (~IsNoObject(raw) /\ IsNoObject(Get(raw, "value"))) =>
              ~res.ok /\ res.message = MissingValueMessage
\* a root object whose value field is a number was rejected
C5_Witness ==
    /\ pc = "failed"
    /\ raw.t = "obj"
    /\ "value" \in DOMAIN raw.o
    /\ raw.o.value.t = "num"
    /\ res.message = MissingValueMessage

\* C6: read-side leniency: when the root and its value field are objects and
\* every module fromJson meets is an object with an object value and a
\* recognized type tag, the parse succeeds, whatever else is malformed
\* (wrong-typed scalars, non-array modules/branches/default, non-object or
\* null entries inside branches, non-object retry/suspend/stop_after_if).
C6_Lenient ==
    (pc # "start" /\ ~IsNoObject(raw) /\ ~IsNoObject(Get(raw, "value"))
       /\ \A e \in Visits(raw) : e.what = "branch is null") => res.ok

IsMissingOrNot(x, kind) == x.t # kind

\* the documented defaults of one module, against the raw module it came from
DefaultsFilled(m, module) ==
    LET v == Get(m, "value")
        value == module.value
    IN /\ value.type = S("rawscript") =>
             /\ IsMissingOrNot(Get(v, "content"), "str") => value.content = S("")
             /\ IsMissingOrNot(Get(v, "language"), "str") => value.language = S("deno")
             /\ IsMissingOrNot(Get(v, "input_transforms"), "obj") =>
                    value.input_transforms = NoKeys
       /\ value.type = S("forloopflow") =>
             (IsMissingOrNot(Get(v, "skip_failures"), "bool") =>
                    value.skip_failures = B(FALSE))
       /\ value.type = S("branchall") =>
             \A i \in DOMAIN value.branches :
                 IsMissingOrNot(Get(Get(v, "branches").a[i], "skip_failure"), "bool") =>
                    value.branches[i].skip_failure = B(FALSE)
       /\ module.suspend # Undef =>
             (IsMissingOrNot(Get(Get(m, "suspend"), "timeout"), "num") =>
                    Get(module.suspend, "timeout") = N(0))
       /\ module.retry # Undef =>
             \A kind \in DOMAIN module.retry.o :
                 /\ IsMissingOrNot(Get(Get(Get(m, "retry"), kind), "attempts"), "num") =>
                        Get(Get(module.retry, kind), "attempts") = N(3)
                 /\ IsMissingOrNot(Get(Get(Get(m, "retry"), kind), "seconds"), "num") =>
                        Get(Get(module.retry, kind), "seconds") = N(10)
                 /\ (kind = "exponential"
                       /\ IsMissingOrNot(Get(Get(Get(m, "retry"), kind), "multiplier"), "num")) =>
                        Get(Get(module.retry, kind), "multiplier") = N(2)

\* C7: in every document fromJson returns, a field that was missing or of the
\* wrong type in the input has its documented default (same_worker false;
\* rawscript content "", language deno, input_transforms empty; skip_failures
\* false; skip_failure false; timeout 0; attempts 3, seconds 10, multiplier 2).
C7_Defaults ==
    pc = "parsed" =>
        /\ IsMissingOrNot(Get(Get(raw, "value"), "same_worker"), "bool") =>
               res.val.value.same_worker = B(FALSE)
        /\ \A e \in Parsed : DefaultsFilled(e.raw, e.doc)

\* C8: in every document fromJson returns, every rawscript module's language is
\* one of the eleven languages and every forloopflow module's parallelism is
\* absent or a positive integer.
C8_WellFormed ==
    pc = "parsed" =>
        \A e \in Parsed :
            /\ e.doc.value.type = S("rawscript") =>
                   e.doc.value.language \in {S(l) : l \in Languages}
            /\ e.doc.value.type = S("forloopflow") =>
                   \/ e.doc.value.parallelism = Undef
                   \/ /\ e.doc.value.parallelism.t = "num"
                      /\ e.doc.value.parallelism.n \in Nat \ {0}

\* the rule of the specification for one raw value in a transform position
TransformRule(r) ==
    IF IsNoObject(r) THEN [type |-> S("static"), value |-> r]
    ELSE IF r.t = "obj" /\ "type" \in DOMAIN r.o /\ r.o.type = S("javascript")
            /\ "expr" \in DOMAIN r.o /\ r.o.expr.t = "str"
    THEN [type |-> S("javascript"), expr |-> r.o.expr]
    ELSE [type |-> S("static"),
          value |-> IF r.t = "obj" /\ "value" \in DOMAIN r.o THEN r.o.value ELSE Undef]

\* C9: every raw value r parsed as an InputTransform (each entry of
\* input_transforms, a loop's iterator) becomes
\* Static{value: r} when r is no object, Dynamic{expr} when r is an object with
\* type "javascript" and a string expr, and Static{value: r.value} otherwise.
C9_Transforms ==
    pc = "parsed" =>
        \A e \in Parsed :
            LET v == Get(e.raw, "value") IN
            /\ (e.doc.value.type \in {S("rawscript"), S("script")}
                  /\ Get(v, "input_transforms").t = "obj") =>
                   /\ DOMAIN e.doc.value.input_transforms = DOMAIN v.o.input_transforms.o
                   /\ \A key \in DOMAIN v.o.input_transforms.o :
                          e.doc.value.input_transforms[key] =
                              TransformRule(v.o.input_transforms.o[key])
            /\ e.doc.value.type = S("forloopflow") =>
                   e.doc.value.iterator = TransformRule(Get(v, "iterator"))
\* the two examples of the specification, and an object that is neither
C9_Witness ==
    /\ pc = "parsed"
    /\ \E e \in Parsed :
          /\ e.doc.value.type = S("rawscript")
          /\ DOMAIN e.doc.value.input_transforms = {"a", "b"}
          /\ e.doc.value.input_transforms["a"] = [type |-> S("static"), value |-> S("literal")]
          /\ e.doc.value.input_transforms["b"] = [type |-> S("javascript"), expr |-> S("1+1")]

\* C10: within one fromJson call the ids synthesized for modules that lack a
\* string id are pairwise distinct across the whole document, whether or not
\* the clock advances during the call.
C10_DistinctSynthesizedIds ==
    pc = "parsed" =>
        \A e1, e2 \in Parsed :
            (e1.path # e2.path /\ Get(e1.raw, "id").t # "str" /\ Get(e2.raw, "id").t # "str")
                => e1.doc.id # e2.doc.id

-----------------------------------------------------------------------------
(* Claims about the store, under Spec                                      *)

\* C3: loadFromJson is atomic on failure: whenever fromJson(raw) fails,
\* loadFromJson(raw) throws that failure to its caller and leaves the current
\* document, the selected module id, the node positions and the dirty flag
\* exactly as they were; a document is installed only when the whole parse
\* succeeded, and then it is the parsed document.
C3_AtomicLoad ==
    [][last'.op = "loadFromJson" =>
          \E clk \in Clocks :
              LET r == fromJsonOf[last'.json, clk] IN
              IF r.ok
              THEN /\ ~last'.threw
                   /\ currentFlow' = r.val
              ELSE /\ last'.threw
                   /\ last'.error = r
                   /\ UNCHANGED <<currentFlow, selectedModuleId, nodePositions, isDirty>>]_vars
\* a load failed on a null branch entry while an edited document, a selection
\* and a node position were in the store
C3_Witness ==
    /\ last.op = "loadFromJson"
    /\ last.threw
    /\ last.error.name = "TypeError"
    /\ currentFlow # Null
    /\ currentFlow.value.modules # <<>>
    /\ selectedModuleId # Null
    /\ nodePositions # NoKeys
    /\ isDirty

-----------------------------------------------------------------------------
(* Claims about the serializer, under CodecSpec                            *)

\* every module of the parsed document with the object toJson emitted for it
Emitted ==
    IF pc \in {"serialized", "reparsed", "reserialized"} THEN Pairs(json, res.val) ELSE {}

ModuleOptions == {"retry", "sleep", "suspend", "stop_after_if"}

\* C13: for every module in which retry, sleep, suspend or stop_after_if is
\* absent, the object toJson emits for that module does not have the key at
\* all; this holds for nested modules and for the failure module as for the
\* top-level ones.
C13_MinimalEmission ==
    \A e \in Emitted : \A key \in ModuleOptions :
        Prop(e.doc, key) = Undef => key \notin DOMAIN e.raw.o
\* a loop and the module in its body, neither with any of the four, were
\* emitted with id and value only, next to a failure module emitted alike
C13_Witness ==
    /\ pc = "serialized"
    /\ \E e \in Emitted : /\ e.doc.value.type = S("forloopflow")
                          /\ e.doc.value.modules # <<>>
    /\ \E e \in Emitted : e.path = "failure_module"
    /\ \A e \in Emitted : /\ \A key \in ModuleOptions : Prop(e.doc, key) = Undef
                          /\ DOMAIN e.raw.o \cap ModuleOptions = {}

\* the optional fields of each variant, and the one that has a default
ValueOptions(type) ==
    CASE type = S("rawscript") -> {"path", "lock", "tag"}
      [] type = S("script") -> {"hash", "tag"}
      [] type = S("forloopflow") -> {"skip_failures", "parallel", "parallelism"}
      [] type = S("branchall") -> {"parallel"}
      [] OTHER -> {}
IsDefault(key, val) == key = "skip_failures" /\ val = B(FALSE)

\* obj, emitted for node, has no key where node has nothing or the default,
\* and has null at no key
Omits(node, obj, key) ==
    /\ (Prop(node, key) = Undef \/ IsDefault(key, Prop(node, key))) => key \notin DOMAIN obj.o
    /\ key \in DOMAIN obj.o => obj.o[key] # Null

\* C14: toJson omits each optional field (summary, description, schema,
\* failure_module, module summary, path, lock, tag, hash, skip_failures,
\* parallel, parallelism, branch summary) whenever it is absent, undefined or
\* equal to its default, and never emits one of them as null.
C14_OmitsOptionals ==
    pc \in {"serialized", "reparsed", "reserialized"} =>
        /\ \A key \in {"summary", "description", "schema"} : Omits(res.val, json, key)
        /\ Omits(res.val.value, json.o.value, "failure_module")
        /\ \A e \in Emitted :
              /\ Omits(e.doc, e.raw, "summary")
              /\ \A key \in ValueOptions(e.doc.value.type) :
                    Omits(e.doc.value, e.raw.o.value, key)
              /\ e.doc.value.type \in {S("branchone"), S("branchall")} =>
                    \A i \in DOMAIN e.doc.value.branches :
                        Omits(e.doc.value.branches[i], e.raw.o.value.o.branches.a[i],
                              "summary")

-----------------------------------------------------------------------------
(* Claims about the documents in the store, under Spec                     *)

\* the places of the top-level modules that have an id
Matches(modules, afterId) ==
    {i \in DOMAIN modules : modules[i] # Undef /\ modules[i].id = afterId}

\* The modules of a document at every nesting level, each with the place
\* where it stands: [path, module]. An entry that is undefined is no module.
RECURSIVE ModulesOfModule(_, _)
ModulesOfArray(modules, path) ==
    UNION {IF modules[i] = Undef THEN {}
           ELSE ModulesOfModule(modules[i], path \o "[" \o ToString(i - 1) \o "]") :
             i \in DOMAIN modules}
ModulesOfModule(module, path) ==
    {[path |-> path, module |-> module]}
    \cup (IF module.value.type = S("forloopflow")
          THEN ModulesOfArray(module.value.modules, path \o ".modules")
          ELSE IF module.value.type \in {S("branchone"), S("branchall")}
          THEN ModulesOfArray(module.value.default, path \o ".default")
               \cup UNION {ModulesOfArray(module.value.branches[i].modules,
                               path \o ".branches[" \o ToString(i - 1) \o "]") :
                             i \in DOMAIN module.value.branches}
          ELSE {})
ModulesOfFlow(flow) ==
    ModulesOfArray(flow.value.modules, "modules")
    \cup (IF Prop(flow.value, "failure_module") = Undef THEN {}
          ELSE ModulesOfModule(flow.value.failure_module, "failure_module"))

\* C11: in every state of the store that newFlow, loadFromJson, addModule,
\* updateModule, deleteModule and reorderModules reach, the modules of the
\* current document (top-level, nested and failure module) have pairwise
\* distinct ids.
C11_UniqueIds ==
    currentFlow # Null =>
        \A a \in ModulesOfFlow(currentFlow), b \in ModulesOfFlow(currentFlow) :
            a.path # b.path => a.module.id # b.module.id

\* the id and the type tag of each top-level module, in sequence order
RECURSIVE Identities(_)
Identities(modules) ==
    IF modules = <<>> THEN <<>>
    ELSE (IF Head(modules) = Undef THEN <<>>
          ELSE <<[id |-> Head(modules).id, type |-> Head(modules).value.type]>>)
         \o Identities(Tail(modules))
Without(seq, k) == SubSeq(seq, 1, k - 1) \o SubSeq(seq, k + 1, Len(seq))
Count(seq, e) == Cardinality({i \in DOMAIN seq : seq[i] = e})
IsPermutation(s1, s2) ==
    /\ Len(s1) = Len(s2)
    /\ \A i \in DOMAIN s1 : Count(s1, s1[i]) = Count(s2, s1[i])

\* C12: a module that is there before and after addModule, updateModule,
\* reorderModules, deleteModule, updateFlowMetadata or updateSameWorker has
\* the same id and the same type tag after the operation as before: the
\* operations that edit in place leave id and tag at every position, addModule
\* adds one module to those there, deleteModule takes one away, reorderModules
\* permutes them.
C12_ImmutableIdentity ==
    [][(/\ currentFlow # Null
        /\ ~last'.threw
        /\ last'.op \in {"addModule", "updateModule", "reorderModules", "deleteModule",
                         "updateFlowMetadata", "updateSameWorker"}) =>
          LET before == Identities(currentFlow.value.modules)
              after == Identities(currentFlow'.value.modules)
          IN  CASE last'.op \in {"updateModule", "updateFlowMetadata", "updateSameWorker"} ->
                     after = before
                [] last'.op = "addModule" ->
                     \E k \in DOMAIN after : Without(after, k) = before
                [] last'.op = "deleteModule" ->
                     \/ after = before
                     \/ \E k \in DOMAIN before : Without(before, k) = after
                [] last'.op = "reorderModules" -> IsPermutation(before, after)]_vars

\* C15: toJson is total on the documents of the store: whatever sequence of
\* newFlow, loadFromJson, addModule, updateModule, deleteModule, reorderModules
\* (with any index arguments), updateFlowMetadata and updateSameWorker made the
\* current document, exportToJson returns and does not fault.
C15_ExportTotal == last.op = "exportToJson" => ~last.threw

\* C16: newFlow, called in any state, the one without a document included,
\* makes the current document one with an empty top-level sequence, no
\* failure module, same_worker = false and an empty object schema, and leaves
\* the selection null and the node positions empty.
C16_NewFlow ==
    last.op = "newFlow" =>
        /\ currentFlow # Null
        /\ currentFlow.value.modules = <<>>
        /\ Prop(currentFlow.value, "failure_module") = Undef
        /\ currentFlow.value.same_worker = B(FALSE)
        /\ currentFlow.schema = O([type |-> S("object"), properties |-> O(NoKeys)])
        /\ selectedModuleId = Null
        /\ nodePositions = NoKeys
\* newFlow has just returned and the store holds the fresh document
C16_Witness ==
    /\ last = Done("newFlow")
    /\ currentFlow = emptyFlow
    /\ selectedModuleId = Null
    /\ nodePositions = NoKeys

\* what updateModule(id, updates) is to do to the sequence: the first module
\* with the id gets the fields of updates and keeps its others, all else stays
Updated(modules, id, updates) ==
    LET k == CHOOSE i \in Matches(modules, id) : \A h \in Matches(modules, id) : i <= h
    IN  [i \in DOMAIN modules |->
            IF i # k THEN modules[i]
            ELSE [key \in DOMAIN modules[k] \cup DOMAIN updates |->
                     IF key \in DOMAIN updates THEN updates[key] ELSE modules[k][key]]]

\* C19: updateModule(id, updates): if a top-level module has the id, exactly
\* the fields named in updates are replaced on that module, and every other
\* module, the order, the rest of the document, the selection and the node
\* positions are unchanged; if no top-level module has the id, even when a
\* module in a loop or branch body has it, the whole store state, the dirty
\* flag included, is unchanged.
C19_UpdateFrame ==
    [][\A id \in {S("m1")}, updates \in ModuleUpdates :
          (currentFlow # Null /\ UpdateModule(id, updates)) =>
              IF Matches(currentFlow.value.modules, id) # {}
              THEN /\ ~last'.threw
                   /\ currentFlow' =
                         [currentFlow EXCEPT !.value.modules = Updated(@, id, updates)]
                   /\ UNCHANGED <<selectedModuleId, nodePositions>>
              ELSE UNCHANGED <<currentFlow, isDirty, selectedModuleId, nodePositions>>]_vars


\* the ids that are source or target of an edge
EdgeEnds(edges) ==
    {edges[i].source : i \in DOMAIN edges} \cup {edges[i].target : i \in DOMAIN edges}

\* C20: after deleteModule(X.id) on a document whose top-level sequence
\* contains X, one module with that id is gone from the sequence and the
\* others are there in their order; the selection is null if X was selected;
\* the node positions have no entry for X.id; and X.id is neither source nor
\* target of any edge that deriveEdges or deriveEdgesWithNested make of the
\* resulting modules.
C20_Deletion ==
    [][\A id \in KnownIds :
          (/\ currentFlow # Null
           /\ Matches(currentFlow.value.modules, id) # {}
           /\ DeleteModule(id)) =>
              /\ ~last'.threw
              /\ \E k \in Matches(currentFlow.value.modules, id) :
                    currentFlow'.value.modules = Without(currentFlow.value.modules, k)
              /\ selectedModuleId = id => selectedModuleId' = Null
              /\ id.s \notin DOMAIN nodePositions'
              /\ ~deriveEdges(currentFlow'.value.modules).threw
              /\ id \notin EdgeEnds(deriveEdges(currentFlow'.value.modules).edges)
              /\ ~deriveEdgesWithNested(currentFlow'.value.modules).threw
              /\ id \notin EdgeEnds(deriveEdgesWithNested(currentFlow'.value.modules).edges)]_vars

-----------------------------------------------------------------------------
(* Claims about addModule, under AddSpec                                   *)

\* where the new module is to stand: right after the first module whose id
\* is afterId, at the end when afterId is left out or no module has it
InsertedAt(modules, afterId) ==
    IF afterId = Undef \/ Matches(modules, afterId) = {} THEN Len(modules) + 1
    ELSE 1 + CHOOSE i \in Matches(modules, afterId) :
                 \A h \in Matches(modules, afterId) : i <= h

\* C17: with a current document whose top-level sequence is S,
\* addModule(kind, afterId) yields S with exactly one new module inserted
\* right after the module whose id is afterId, or appended at the end when
\* afterId is omitted or matches no top-level module; the modules of S are
\* unchanged and in their order, and the new module is the selected one.
C17_Insertion ==
    [][\A moduleType \in ModuleTypes, afterId \in AfterIds, random \in RandomSuffixes :
          (currentFlow # Null /\ AddModule(moduleType, afterId, DateNow(clock, 1), random)) =>
              /\ ~last'.threw
              /\ Len(currentFlow'.value.modules) = Len(currentFlow.value.modules) + 1
              /\ Without(currentFlow'.value.modules,
                         InsertedAt(currentFlow.value.modules, afterId))
                    = currentFlow.value.modules
              /\ selectedModuleId' =
                    currentFlow'.value.modules[
                        InsertedAt(currentFlow.value.modules, afterId)].id]_vars

\* the fields a typed object has, those that are undefined left aside; the
\* fields that hold sequences and mappings are never undefined
Fields(node) ==
    {key \in DOMAIN node :
        IF key \in {"modules", "branches", "default", "input_transforms"} THEN TRUE
        ELSE node[key] # Undef}

\* what the value of a new module of each variant is to be
HasVariantDefaults(value) ==
    CASE value.type = S("identity") -> Fields(value) = {"type"}
      [] value.type = S("rawscript") ->
            /\ Fields(value) = {"type", "content", "language", "input_transforms"}
            /\ value.content =
                  S("// Write your script here\n\nexport function main() {\n  return \"Hello, World!\";\n}")
            /\ value.language = S("deno")
            /\ value.input_transforms = NoKeys
      [] value.type = S("script") ->
            /\ Fields(value) = {"type", "path", "input_transforms"}
            /\ value.path = S("")
            /\ value.input_transforms = NoKeys
      [] value.type = S("forloopflow") ->
            /\ Fields(value) = {"type", "modules", "iterator", "skip_failures"}
            /\ value.modules = <<>>
            /\ value.iterator = [type |-> S("javascript"), expr |-> S("[1, 2, 3]")]
            /\ value.skip_failures = B(FALSE)
      [] value.type = S("branchone") ->
            /\ Fields(value) = {"type", "branches", "default"}
            /\ Len(value.branches) = 1
            /\ value.branches[1].expr = S("true")
            /\ value.branches[1].modules = <<>>
            /\ value.default = <<>>
      [] value.type = S("branchall") ->
            /\ Fields(value) = {"type", "branches", "default"}
            /\ Len(value.branches) = 1
            /\ value.branches[1].skip_failure = B(FALSE)
            /\ value.branches[1].modules = <<>>
            /\ value.default = <<>>
      [] OTHER -> FALSE

\* C18: the module addModule(kind) creates is of that kind and carries the
\* defaults of the variant: identity nothing; rawscript the hello-world
\* placeholder, language deno, no input transforms; script path "" and no
\* input transforms; forloopflow an empty body, the javascript iterator
\* "[1, 2, 3]" and skip_failures false; branchone one branch with expr "true"
\* and an empty body, and an empty default; branchall one branch with
\* skip_failure false and an empty body, and an empty default; and it has no
\* retry, sleep, suspend or stop_after_if.
C18_VariantDefaults ==
    [][\A moduleType \in ModuleTypes, afterId \in AfterIds, random \in RandomSuffixes :
          (currentFlow # Null /\ AddModule(moduleType, afterId, DateNow(clock, 1), random)) =>
              \E k \in DOMAIN currentFlow'.value.modules :
                  LET module == currentFlow'.value.modules[k] IN
                  /\ Without(currentFlow'.value.modules, k) = currentFlow.value.modules
                  /\ module.id = selectedModuleId'
                  /\ module.value.type = S(moduleType)
                  /\ HasVariantDefaults(module.value)
                  /\ Fields(module) \cap ModuleOptions = {}]_vars
\* a loop, and then a branchone right after module b, were added to the
\* three modules of an opened document
C18_Witness ==
    /\ last = Done("addModule")
    /\ currentFlow # Null
    /\ Len(currentFlow.value.modules) = AddMaxModules
    /\ \E k \in DOMAIN currentFlow.value.modules :
          /\ currentFlow.value.modules[k].id = selectedModuleId
          /\ currentFlow.value.modules[k].value.type \in {S("forloopflow"), S("branchone")}
          /\ HasVariantDefaults(currentFlow.value.modules[k].value)
          /\ k < Len(currentFlow.value.modules)

-----------------------------------------------------------------------------
(* Claims about the canvas: reordering, edges, validation                  *)

\* the ids of a sequence of modules
IdsOf(modules) == [i \in DOMAIN modules |-> modules[i].id]

InRange(index) ==
    /\ currentFlow # Null
    /\ index >= 0
    /\ index < Len(currentFlow.value.modules)

\* C21: a reorderModules(fromIndex, toIndex) with both indexes inside the
\* top-level sequence leaves the entry that stood at fromIndex at toIndex,
\* and the other entries as they were and in the order they had: the
\* sequence without the entry at toIndex is the former sequence without the
\* entry at fromIndex, and its length is the same.
C21_InRangeReorder ==
    [][\A fromIndex \in CanvasIndexes, toIndex \in CanvasIndexes :
          (InRange(fromIndex) /\ InRange(toIndex) /\ ReorderModules(fromIndex, toIndex))
          => /\ Len(currentFlow'.value.modules) = Len(currentFlow.value.modules)
             /\ currentFlow'.value.modules[toIndex + 1]
                   = currentFlow.value.modules[fromIndex + 1]
             /\ Without(currentFlow'.value.modules, toIndex + 1)
                   = Without(currentFlow.value.modules, fromIndex + 1)
             /\ [currentFlow' EXCEPT !.value.modules = <<>>]
                   = [currentFlow EXCEPT !.value.modules = <<>>]]_vars

\* a, b, c after reorderModules(0, 2)
C21_Witness ==
    /\ currentFlow # Null
    /\ last = Done("reorderModules")
    /\ Len(currentFlow.value.modules) = 3
    /\ \A i \in 1..3 : currentFlow.value.modules[i] # Undef
    /\ IdsOf(currentFlow.value.modules) = <<S("b"), S("c"), S("a")>>

\* no entry of the top-level sequence is undefined
AllModules ==
    /\ currentFlow # Null
    /\ \A i \in DOMAIN currentFlow.value.modules : currentFlow.value.modules[i] # Undef

\* C22: deriveEdges on a sequence of n modules returns n - 1 edges, none
\* when n is 0 or 1; the i-th runs from the i-th module to the module after
\* it, whatever the bodies of loops and branches hold.
C22_SequentialEdges ==
    (AllModules /\ last.op = "deriveEdges")
    => /\ ~last.threw
       /\ Len(last.edges) = (IF Len(currentFlow.value.modules) = 0 THEN 0
                             ELSE Len(currentFlow.value.modules) - 1)
       /\ \A i \in DOMAIN last.edges :
             /\ last.edges[i].source = currentFlow.value.modules[i].id
             /\ last.edges[i].target = currentFlow.value.modules[i + 1].id

\* the edges of a, g, b where g is a branch with modules in its branches and
\* in its default
C22_Witness ==
    /\ AllModules
    /\ last.op = "deriveEdges"
    /\ Len(currentFlow.value.modules) = 3
    /\ \E i \in 1..3 :
          /\ currentFlow.value.modules[i].value.type = S("branchone")
          /\ currentFlow.value.modules[i].value.default # <<>>
    /\ Len(last.edges) = 2

\* the same on one module and on none
C22_WitnessShort ==
    /\ AllModules
    /\ last.op = "deriveEdges"
    /\ Len(currentFlow.value.modules) <= 1
    /\ last.edges = <<>>

\* C23: in what deriveEdgesWithNested returns, no two edges have the same
\* source and target, and no two have the same id, whether or not ids are
\* repeated in the tree.
C23_NoDuplicateEdges ==
    (last.op = "deriveEdgesWithNested" /\ ~last.threw)
    => \A i \in DOMAIN last.edges, j \in DOMAIN last.edges :
          i # j => /\ <<last.edges[i].source, last.edges[i].target>>
                        # <<last.edges[j].source, last.edges[j].target>>
                   /\ last.edges[i].id # last.edges[j].id

\* three modules with the id a: the second pair a, a gives no second edge
C23_Witness ==
    /\ AllModules
    /\ last.op = "deriveEdgesWithNested"
    /\ ~last.threw
    /\ IdsOf(currentFlow.value.modules) = <<S("a"), S("a"), S("a")>>
    /\ Len(last.edges) = 1

\* the pairs of consecutive modules of one sequence
SequencePairs(modules) ==
    {<<modules[i].id, modules[i + 1].id>> : i \in 1..(Len(modules) - 1)}

\* the nested bodies of a module: the loop body; each branch and the default
BodiesOf(module) ==
    IF module.value.type = S("forloopflow") THEN {module.value.modules}
    ELSE IF module.value.type \in {S("branchone"), S("branchall")}
    THEN {module.value.default}
         \cup {module.value.branches[i].modules : i \in DOMAIN module.value.branches}
    ELSE {}

\* the edges of a sequence and of all that is nested in it: consecutive
\* modules, and each container to the first module of each non-empty body
RECURSIVE SequenceAndBodyPairs(_)
SequenceAndBodyPairs(modules) ==
    SequencePairs(modules)
    \cup UNION {UNION {(IF body = <<>> THEN {} ELSE {<<modules[i].id, body[1].id>>})
                       \cup SequenceAndBodyPairs(body) : body \in BodiesOf(modules[i])} :
                i \in DOMAIN modules}

DistinctIds(modules) ==
    \A a \in ModulesOfArray(modules, "modules"), b \in ModulesOfArray(modules, "modules") :
        a.path # b.path => a.module.id # b.module.id

\* C24: for a tree of modules with pairwise distinct ids, the edges of
\* deriveEdgesWithNested are the edge from each module to the next of its
\* sequence, at the top level and in each nested body, and the edge from each
\* container to the first module of each of its non-empty bodies, and no
\* other.
C24_NestedEdges ==
    (/\ AllModules
     /\ DistinctIds(currentFlow.value.modules)
     /\ last.op = "deriveEdgesWithNested")
    => /\ ~last.threw
       /\ {<<last.edges[i].source, last.edges[i].target>> : i \in DOMAIN last.edges}
             = SequenceAndBodyPairs(currentFlow.value.modules)

\* no id stands at two places of the top-level sequence
DistinctTopIds ==
    \A i \in DOMAIN currentFlow.value.modules, j \in DOMAIN currentFlow.value.modules :
        i # j => currentFlow.value.modules[i].id # currentFlow.value.modules[j].id

\* C25: validateDAG on a sequence of modules returns true when the ids of
\* the top-level modules are pairwise distinct and false when an id stands
\* at two top-level places, whatever the bodies of loops and branches hold.
C25_ValidIffDistinct ==
    (AllModules /\ last.op = "validateDAG")
    => /\ ~last.threw
       /\ last.valid = B(DistinctTopIds)

\* a, b, a: the id a is repeated and validateDAG has returned false
C25_Witness ==
    /\ AllModules
    /\ last.op = "validateDAG"
    /\ IdsOf(currentFlow.value.modules) = <<S("a"), S("b"), S("a")>>
    /\ last.valid = B(FALSE)

\* a and the loop f, whose body repeats the ids a and f: true
C25_WitnessNested ==
    /\ AllModules
    /\ last.op = "validateDAG"
    /\ DistinctTopIds
    /\ ~DistinctIds(currentFlow.value.modules)
    /\ last.valid = B(TRUE)

\* after is before with one entry moved to another place, or before itself
Reordered(before, after) ==
    \/ after = before
    \/ /\ Len(after) = Len(before)
       /\ \E f \in DOMAIN before, t \in DOMAIN before :
             /\ after[t] = before[f]
             /\ Without(after, t) = Without(before, f)

\* C26: whatever integers fromIndex and toIndex are, reorderModules on a
\* sequence of modules leaves the sequence reordered or as it was: of the
\* same length, with the same modules, and with no undefined entry.
C26_NoPartialMutation ==
    [][\A fromIndex \in CanvasIndexes, toIndex \in CanvasIndexes :
          (AllModules /\ ReorderModules(fromIndex, toIndex))
          => /\ Len(currentFlow'.value.modules) = Len(currentFlow.value.modules)
             /\ \A i \in DOMAIN currentFlow'.value.modules :
                   currentFlow'.value.modules[i] # Undef
             /\ Reordered(currentFlow.value.modules, currentFlow'.value.modules)]_vars

-----------------------------------------------------------------------------
(* A claim about the sleep of a module, under CodecSpec                    *)

\* null and the scalars
IsNullOrScalar(r) == r.t \in {"null", "num", "str", "bool"}

\* C27: every module whose JSON has a sleep key with null or a scalar as its
\* value is parsed with sleep = Static{value: that value}.
C27_SleepKept ==
    \A e \in Parsed :
        (e.raw.t = "obj" /\ "sleep" \in DOMAIN e.raw.o /\ IsNullOrScalar(e.raw.o.sleep))
        => e.doc.sleep = [type |-> S("static"), value |-> e.raw.o.sleep]

-----------------------------------------------------------------------------
(* Claims about the view state and the dirty flag                          *)

\* C28: when no update names the id, and selectModule and updateNodePosition
\* are called with null or with ids of top-level modules only, the selected
\* id is null or the id of a top-level module, and every key of the node
\* positions is the id of a top-level module.
C28_NoDanglingView ==
    /\ selectedModuleId = Null \/ selectedModuleId \in TopIds
    /\ \A key \in DOMAIN nodePositions : S(key) \in TopIds

\* a module was deleted while another was selected and had a position
C28_Witness ==
    /\ last = Done("deleteModule")
    /\ selectedModuleId \in TopIds
    /\ DOMAIN nodePositions # {}

\* the selected module, which had a position, was deleted
C28_WitnessCleared ==
    /\ last = Done("deleteModule")
    /\ currentFlow # Null
    /\ currentFlow.value.modules # <<>>
    /\ selectedModuleId = Null
    /\ nodePositions = NoKeys
    /\ S("m1") \notin TopIds

\* the operations that clear the dirty flag, and those that edit the document
Cleaning ==
    \/ last.op \in {"newFlow", "markClean"}
    \/ last.op = "loadFromJson" /\ ~last.threw
Editing ==
    last.op \in {"addModule", "updateModule", "deleteModule", "reorderModules",
                 "updateFlowMetadata", "updateSameWorker"}

\* C29: isDirty is false right after newFlow, a successful loadFromJson
\* (the callers of setFlow) and markClean; an editing operation that changes
\* the document leaves isDirty true; a step that ends with isDirty false is a
\* step of one of the clearing operations or starts with isDirty false and
\* leaves the document as it is (so that, step by step, a document with
\* isDirty false is the document of the last setFlow or markClean); and an
\* editing operation that finds no document, or no module with the id it is
\* given, leaves isDirty as it is.
C29_DirtyTracking ==
    [][/\ Cleaning' => ~isDirty'
       /\ (Editing' /\ currentFlow' # currentFlow) => isDirty'
       /\ ~isDirty' => (Cleaning' \/ (~isDirty /\ currentFlow' = currentFlow))
       /\ (Editing' /\ currentFlow = Null) => (isDirty' = isDirty /\ currentFlow' = Null)
       /\ \A id \in KnownIds, updates \in ModuleUpdates :
             (/\ currentFlow # Null
              /\ Matches(currentFlow.value.modules, id) = {}
              /\ UpdateModule(id, updates) \/ DeleteModule(id))
             => (isDirty' = isDirty /\ currentFlow' = currentFlow)]_vars

\* an edited document was marked clean
C29_Witness ==
    /\ last = Done("markClean")
    /\ ~isDirty
    /\ currentFlow # Null
    /\ currentFlow.summary = S("renamed")
    /\ Len(currentFlow.value.modules) = 2

\* deleteModule found no module with the id and left a clean document clean
C29_WitnessNotFound ==
    /\ last = Done("deleteModule")
    /\ ~isDirty
    /\ currentFlow # Null
    /\ currentFlow.value.modules # <<>>

-----------------------------------------------------------------------------
(* A claim about the toolbar's Open, under ToolbarSpec                     *)

\* the step in which the pending handleOpen ends
OpenEnds == isLoading /\ ~isLoading'

\* C30: when the pending Open installs the uploaded document over a dirty
\* document, the user was asked and confirmed; and when the read or the parse
\* fails, the document and isDirty stay as they were.
C30_OpenConfirmed ==
    [][/\ (OpenEnds /\ last'.op = "loadFromJson" /\ ~last'.threw /\ isDirty)
          => confirmed
       /\ (OpenEnds /\ last'.threw)
          => (currentFlow' = currentFlow /\ isDirty' = isDirty)]_vars

====
